---- MODULE Spec2Model ----
(***************************************************************************)
(* Trade journal: message parsing (parsing/patterns.py,                    *)
(* parsing/message_parser.py), the record store (database/models.py) and   *)
(* the position accounting engine (services/position_tracker.py).          *)
(*                                                                         *)
(* Conventions.  A Python str is a TLA+ string, None is the string "None". *)
(* A message text is a tuple of one-character strings, so that the regular *)
(* expressions of patterns.py are matched character by character.  A       *)
(* Python float is an exact rational [n, d] in lowest terms with d > 0;    *)
(* None is [n |-> 0, d |-> 0].  A row id is a positive integer, None is 0. *)
(***************************************************************************)
EXTENDS Integers, Sequences, FiniteSets, TLC

VARIABLES
    tokens,     \* table tokens
    positions,  \* table positions
    trades,     \* table trades
    last,       \* the last operation: its input and what it returned
    calls       \* number of operations so far

vars == <<tokens, positions, trades, last, calls>>

\* Number of process_trade calls in one behaviour of Spec.
MaxTrades == 3

-----------------------------------------------------------------------------
(* Floats as exact rationals *)

RECURSIVE Gcd(_, _)
Gcd(a, b) == IF b = 0 THEN a ELSE Gcd(b, a % b)

Abs(x) == IF x < 0 THEN -x ELSE x

Rat(n, d) ==
    LET g == Gcd(Abs(n), Abs(d))
        s == IF d < 0 THEN -1 ELSE 1
    IN  [n |-> (s * n) \div g, d |-> (s * d) \div g]

NoneF == [n |-> 0, d |-> 0]
Zero == [n |-> 0, d |-> 1]
Num(k) == [n |-> k, d |-> 1]

IsNoneF(a) == a.d = 0
\* Python truthiness of an Optional[float]: None and 0.0 are false.
Truthy(a) == a.d # 0 /\ a.n # 0
\* value or 0
OrZero(a) == IF Truthy(a) THEN a ELSE Zero

FAdd(a, b) == Rat(a.n * b.d + b.n * a.d, a.d * b.d)
FSub(a, b) == Rat(a.n * b.d - b.n * a.d, a.d * b.d)
FMul(a, b) == Rat(a.n * b.n, a.d * b.d)
FDiv(a, b) == Rat(a.n * b.d, a.d * b.n)
FNeg(a) == [n |-> -a.n, d |-> a.d]
FLe(a, b) == a.n * b.d <= b.n * a.d
FLt(a, b) == a.n * b.d < b.n * a.d
FMax(a, b) == IF FLe(a, b) THEN b ELSE a

-----------------------------------------------------------------------------
(* Record store: database/models.py over the tables tokens, positions,     *)
(* trades.  A table is the sequence of its rows, the row id is the index.  *)

None == "None"
StrTruthy(s) == s # None /\ s # ""

\* SQL LOWER() and str.lower() on the mixed-case strings of the model.
LowerStr(s) ==
    CASE s = "0x20DD04c17AFD5c9a8b3f2cdacaa8Ee7907385BEF"
             -> "0x20dd04c17afd5c9a8b3f2cdacaa8ee7907385bef"
      [] s = "0x20DD04C17AFD5C9A8B3F2CDACAA8EE7907385BEF"
             -> "0x20dd04c17afd5c9a8b3f2cdacaa8ee7907385bef"
      [] s = "Base" -> "base"
      [] s = "PEPE" -> "pepe"
      [] s = "HYPE" -> "hype"
      [] OTHER -> s

Coalesce(new, old) == IF new # None THEN new ELSE old

Db(tk, ps, tr) == [tokens |-> tk, positions |-> ps, trades |-> tr]

MinOf(S) == CHOOSE x \in S : \A y \in S : x <= y
MaxOf(S) == CHOOSE x \in S : \A y \in S : y <= x

\* get_or_create_token: returns the store and the token id.
get_or_create_token(db, contract_address, chain, symbol, name) ==
    LET found == {i \in 1..Len(db.tokens) :
                    /\ LowerStr(db.tokens[i].contract_address) = LowerStr(contract_address)
                    /\ db.tokens[i].chain = chain}
    IN  IF found # {}
        THEN LET id == MinOf(found)
                 row == db.tokens[id]
                 upd == [row EXCEPT !.symbol = Coalesce(symbol, row.symbol),
                                    !.name = Coalesce(name, row.name)]
             IN  [db |-> IF StrTruthy(symbol) \/ StrTruthy(name)
                         THEN [db EXCEPT !.tokens[id] = upd]
                         ELSE db,
                  id |-> id]
        ELSE [db |-> [db EXCEPT !.tokens = Append(db.tokens,
                        [contract_address |-> contract_address, chain |-> chain,
                         symbol |-> symbol, name |-> name])],
              id |-> Len(db.tokens) + 1]

\* Column defaults of the positions table (schema.sql is not part of the sources).
PositionDefault == Zero

\* create_position: INSERT (token_id, wallet_id, 'OPEN', now); other columns default.
NewPosition(token_id) ==
    [token_id |-> token_id, wallet_id |-> 0, status |-> "OPEN",
     total_bought |-> PositionDefault, total_sold |-> PositionDefault,
     remaining_tokens |-> PositionDefault, total_cost_usd |-> PositionDefault,
     total_proceeds_usd |-> PositionDefault, realized_pnl_usd |-> PositionDefault]

create_position(db, token_id) ==
    [db |-> [db EXCEPT !.positions = Append(db.positions, NewPosition(token_id))],
     id |-> Len(db.positions) + 1]

IsOpen(p) == p.status \in {"OPEN", "PARTIAL"}

\* Mutant: the lookup matches status 'OPEN' only and misses PARTIAL positions.
get_open_position_OnlyOpen(db, token_id) ==
    LET rows == {i \in 1..Len(db.positions) :
                    db.positions[i].token_id = token_id /\ db.positions[i].status = "OPEN"}
    IN  IF rows = {} THEN 0 ELSE MaxOf(rows)

\* Mutant: the lookup returns the latest position of the token whatever its status.
get_open_position_AnyStatus(db, token_id) ==
    LET rows == {i \in 1..Len(db.positions) : db.positions[i].token_id = token_id}
    IN  IF rows = {} THEN 0 ELSE MaxOf(rows)

\* get_open_position(token_id) with wallet_id None: the latest opened OPEN/PARTIAL
\* position of the token (opened_at grows with the row id), 0 if none.
get_open_position(db, token_id) ==
    LET rows == {i \in 1..Len(db.positions) :
                    db.positions[i].token_id = token_id /\ IsOpen(db.positions[i])}
    IN  IF rows = {} THEN 0 ELSE MaxOf(rows)

\* get_open_positions_by_symbol: ids of the OPEN/PARTIAL positions whose token has
\* the symbol, compared case-insensitively.
get_open_positions_by_symbol(db, symbol) ==
    {i \in 1..Len(db.positions) :
        /\ IsOpen(db.positions[i])
        /\ LowerStr(db.tokens[db.positions[i].token_id].symbol) = LowerStr(symbol)}

\* create_trade: appends one row, returns the store and the trade id.
create_trade(db, row) ==
    [db |-> [db EXCEPT !.trades = Append(db.trades, row)],
     id |-> Len(db.trades) + 1]

-----------------------------------------------------------------------------
(* Position accounting engine: services/position_tracker.py *)

\* models.update_position: writes the given columns of the row, leaves the others.
update_position(db, position_id, fields) ==
    [db EXCEPT !.positions[position_id] =
        [k \in DOMAIN @ |-> IF k \in DOMAIN fields THEN fields[k] ELSE @[k]]]

\* Mutant: the BUY branch does not write the status.
BuyFields_KeepsStatus(position, amount_tokens, total_value_usd) ==
    [total_bought |-> FAdd(OrZero(position.total_bought), amount_tokens),
     remaining_tokens |-> FAdd(OrZero(position.remaining_tokens), amount_tokens),
     total_cost_usd |-> FAdd(OrZero(position.total_cost_usd), total_value_usd)]

\* Mutant: the BUY branch overwrites the cost instead of accumulating it.
BuyFields_OverwritesCost(position, amount_tokens, total_value_usd) ==
    [total_bought |-> FAdd(OrZero(position.total_bought), amount_tokens),
     remaining_tokens |-> FAdd(OrZero(position.remaining_tokens), amount_tokens),
     total_cost_usd |-> total_value_usd,
     status |-> "OPEN"]

\* The BUY branch of update_position_from_trade: the columns it writes.
BuyFields(position, amount_tokens, total_value_usd) ==
    [total_bought |-> FAdd(OrZero(position.total_bought), amount_tokens),
     remaining_tokens |-> FAdd(OrZero(position.remaining_tokens), amount_tokens),
     total_cost_usd |-> FAdd(OrZero(position.total_cost_usd), total_value_usd),
     status |-> "OPEN"]

\* Mutant: the PnL of the sale replaces the running PnL instead of adding to it.
NewPnl_NotAccumulated(position, amount_tokens, total_value_usd) ==
    IF FLt(Zero, OrZero(position.total_bought))
    THEN FSub(total_value_usd,
              FMul(amount_tokens,
                   FDiv(OrZero(position.total_cost_usd), OrZero(position.total_bought))))
    ELSE OrZero(position.realized_pnl_usd)

\* Realized PnL after a SELL, at the average cost basis.
NewPnl(position, amount_tokens, total_value_usd) ==
    IF FLt(Zero, OrZero(position.total_bought))
    THEN LET avg_cost_per_token ==
                 FDiv(OrZero(position.total_cost_usd), OrZero(position.total_bought))
             cost_of_sold == FMul(amount_tokens, avg_cost_per_token)
             realized_pnl == FSub(total_value_usd, cost_of_sold)
         IN  FAdd(OrZero(position.realized_pnl_usd), realized_pnl)
    ELSE OrZero(position.realized_pnl_usd)

\* Mutant: the remainder is not floored at 0.
SellFields_NoFloor(position, amount_tokens, total_value_usd) ==
    LET new_remaining == FSub(OrZero(position.remaining_tokens), amount_tokens)
    IN  [total_sold |-> FAdd(OrZero(position.total_sold), amount_tokens),
         remaining_tokens |-> new_remaining,
         total_proceeds_usd |-> FAdd(OrZero(position.total_proceeds_usd), total_value_usd),
         realized_pnl_usd |-> NewPnl(position, amount_tokens, total_value_usd),
         status |-> IF FLe(new_remaining, Zero) THEN "CLOSED" ELSE "PARTIAL"]

\* Mutant: the position closes only when the remainder is below 0.
SellFields_StrictClose(position, amount_tokens, total_value_usd) ==
    LET new_remaining == FSub(OrZero(position.remaining_tokens), amount_tokens)
        closed == FLt(new_remaining, Zero)
    IN  [total_sold |-> FAdd(OrZero(position.total_sold), amount_tokens),
         remaining_tokens |-> IF closed THEN Zero ELSE new_remaining,
         total_proceeds_usd |-> FAdd(OrZero(position.total_proceeds_usd), total_value_usd),
         realized_pnl_usd |-> NewPnl(position, amount_tokens, total_value_usd),
         status |-> IF closed THEN "CLOSED" ELSE "PARTIAL"]

\* The SELL branch of update_position_from_trade: the columns it writes.
SellFields(position, amount_tokens, total_value_usd) ==
    LET new_remaining == FSub(OrZero(position.remaining_tokens), amount_tokens)
        closed == FLe(new_remaining, Zero)
    IN  [total_sold |-> FAdd(OrZero(position.total_sold), amount_tokens),
         remaining_tokens |-> IF closed THEN Zero ELSE new_remaining,
         total_proceeds_usd |-> FAdd(OrZero(position.total_proceeds_usd), total_value_usd),
         realized_pnl_usd |-> NewPnl(position, amount_tokens, total_value_usd),
         status |-> IF closed THEN "CLOSED" ELSE "PARTIAL"]

\* update_position_from_trade(position, trade_type, amount_tokens, total_value_usd):
\* position is the row as it was read before the trade was created.
update_position_from_trade(db, position_id, position, trade_type, amount_tokens, total_value_usd) ==
    update_position(db, position_id,
        IF trade_type = "BUY"
        THEN BuyFields(position, amount_tokens, total_value_usd)
        ELSE SellFields(position, amount_tokens, total_value_usd))

-----------------------------------------------------------------------------
(* Floating point.  A Python float is a binary floating-point number with a *)
(* significand of 53 bits and every operation rounds its exact result to    *)
(* the nearest such number, ties to the even significand.  The operations   *)
(* below do the same with a significand of SignificandBits bits.            *)

SignificandBits == 3

RECURSIVE Pow2(_)
Pow2(k) == IF k = 0 THEN 1 ELSE 2 * Pow2(k - 1)

\* n/d >= 0 scaled by a power of two into [2^(p-1), 2^p): the exponent e with
\* n/d = (n1/d1) * 2^e.
RECURSIVE Normalize(_, _, _)
Normalize(n, d, e) ==
    IF n < Pow2(SignificandBits - 1) * d THEN Normalize(2 * n, d, e - 1)
    ELSE IF n >= Pow2(SignificandBits) * d THEN Normalize(n, 2 * d, e + 1)
    ELSE [n |-> n, d |-> d, e |-> e]

\* The integer nearest to n/d, a tie going to the even one.
RoundHalfEven(n, d) ==
    IF 2 * (n % d) > d \/ (2 * (n % d) = d /\ (n \div d) % 2 = 1)
    THEN (n \div d) + 1
    ELSE n \div d

Scaled(m, e) == IF e >= 0 THEN Rat(m * Pow2(e), 1) ELSE Rat(m, Pow2(-e))

RoundPositive(s) == Scaled(RoundHalfEven(s.n, s.d), s.e)

\* The float nearest to the rational a.
fl(a) ==
    IF IsNoneF(a) \/ a.n = 0 THEN a
    ELSE IF a.n < 0 THEN FNeg(RoundPositive(Normalize(-a.n, a.d, 0)))
    ELSE RoundPositive(Normalize(a.n, a.d, 0))

\* The BUY branch of update_position_from_trade in floating point.
BuyFieldsRounded(position, amount_tokens, total_value_usd) ==
    [total_bought |-> fl(FAdd(OrZero(position.total_bought), amount_tokens)),
     remaining_tokens |-> fl(FAdd(OrZero(position.remaining_tokens), amount_tokens)),
     total_cost_usd |-> fl(FAdd(OrZero(position.total_cost_usd), total_value_usd)),
     status |-> "OPEN"]

\* Realized PnL after a SELL in floating point.
NewPnlRounded(position, amount_tokens, total_value_usd) ==
    IF FLt(Zero, OrZero(position.total_bought))
    THEN LET avg_cost_per_token ==
                 fl(FDiv(OrZero(position.total_cost_usd), OrZero(position.total_bought)))
             cost_of_sold == fl(FMul(amount_tokens, avg_cost_per_token))
             realized_pnl == fl(FSub(total_value_usd, cost_of_sold))
         IN  fl(FAdd(OrZero(position.realized_pnl_usd), realized_pnl))
    ELSE OrZero(position.realized_pnl_usd)

\* The SELL branch of update_position_from_trade in floating point.
SellFieldsRounded(position, amount_tokens, total_value_usd) ==
    LET new_remaining == fl(FSub(OrZero(position.remaining_tokens), amount_tokens))
        closed == FLe(new_remaining, Zero)
    IN  [total_sold |-> fl(FAdd(OrZero(position.total_sold), amount_tokens)),
         remaining_tokens |-> IF closed THEN Zero ELSE new_remaining,
         total_proceeds_usd |-> fl(FAdd(OrZero(position.total_proceeds_usd), total_value_usd)),
         realized_pnl_usd |-> NewPnlRounded(position, amount_tokens, total_value_usd),
         status |-> IF closed THEN "CLOSED" ELSE "PARTIAL"]

\* update_position_from_trade in floating point.
update_position_from_trade_rounded(db, position_id, position, trade_type, amount_tokens, total_value_usd) ==
    update_position(db, position_id,
        IF trade_type = "BUY"
        THEN BuyFieldsRounded(position, amount_tokens, total_value_usd)
        ELSE SellFieldsRounded(position, amount_tokens, total_value_usd))

-----------------------------------------------------------------------------
(* Market data resolver: services/dex_screener.py.  A response of the      *)
(* service is [kind |-> "error", text] (timeout, rate limit, transport     *)
(* failure) or [kind |-> "ok", pairs], pairs being the listings returned.  *)

NoInfo ==
    [found |-> FALSE, contract_address |-> None, chain |-> None, symbol |-> None,
     name |-> None, price_usd |-> NoneF, market_cap |-> NoneF,
     liquidity_usd |-> NoneF, dex_url |-> None]

\* CHAIN_PRIORITY.get(chain_id.lower(), DEFAULT_CHAIN_PRIORITY)
DEFAULT_CHAIN_PRIORITY == 100
get_chain_priority(chain_id) ==
    CASE LowerStr(chain_id) = "solana" -> 0
      [] LowerStr(chain_id) = "base" -> 1
      [] LowerStr(chain_id) = "bsc" -> 2
      [] LowerStr(chain_id) = "ethereum" -> 3
      [] OTHER -> DEFAULT_CHAIN_PRIORITY

\* parse_pair_to_token_info(pair, contract_address)
parse_pair_to_token_info(pair, contract_address) ==
    LET isBase == LowerStr(pair.baseAddress) = LowerStr(contract_address)
    IN  [found |-> TRUE,
         contract_address |-> IF isBase THEN pair.baseAddress ELSE pair.quoteAddress,
         chain |-> pair.chainId,
         symbol |-> IF isBase THEN pair.baseSymbol ELSE pair.quoteSymbol,
         name |-> "Unknown Token",
         price_usd |-> pair.priceUsd,
         market_cap |-> pair.marketCap,
         liquidity_usd |-> pair.liquidity,
         dex_url |-> "https://dexscreener.com/" \o pair.chainId \o "/" \o pair.pairAddress]

\* p.get('liquidity', {}).get('usd', 0) or 0
Liquidity(pair) == OrZero(pair.liquidity)

\* max(chain_pairs, key=liquidity): the first listing of maximal liquidity.
MaxLiquidityIndex(pairs, idx) ==
    MinOf({i \in idx : \A j \in idx : FLe(Liquidity(pairs[j]), Liquidity(pairs[i]))})

\* pair_score order: (priority, -liquidity) ascending.
ScoreLe(p, q) ==
    \/ get_chain_priority(p.chainId) < get_chain_priority(q.chainId)
    \/ /\ get_chain_priority(p.chainId) = get_chain_priority(q.chainId)
       /\ FLe(Liquidity(q), Liquidity(p))

\* sorted(pairs, key=pair_score)[0]: the sort is stable, so the first minimal listing.
BestScoreIndex(pairs) ==
    MinOf({i \in 1..Len(pairs) : \A j \in 1..Len(pairs) : ScoreLe(pairs[i], pairs[j])})

\* Mutant: the chain hint is ignored.
get_token_info_IgnoresHint(pairs, contract_address, chain) ==
    IF pairs = <<>> THEN NoInfo
    ELSE parse_pair_to_token_info(pairs[BestScoreIndex(pairs)], contract_address)

\* get_token_info(contract_address, chain) on the listings search_token returned.
get_token_info(pairs, contract_address, chain) ==
    IF pairs = <<>> THEN NoInfo
    ELSE LET chain_pairs == {i \in 1..Len(pairs) :
                                LowerStr(pairs[i].chainId) = LowerStr(chain)}
         IN  IF StrTruthy(chain) /\ chain_pairs # {}
             THEN parse_pair_to_token_info(pairs[MaxLiquidityIndex(pairs, chain_pairs)],
                                           contract_address)
             ELSE parse_pair_to_token_info(pairs[BestScoreIndex(pairs)], contract_address)

\* get_pair_info(pair_address, chain) on the pairs endpoint's answer: the base token.
get_pair_info(presp, pair_address) ==
    IF presp.pairs = <<>> THEN NoInfo
    ELSE parse_pair_to_token_info(presp.pairs[1], presp.pairs[1].baseAddress)

-----------------------------------------------------------------------------
(* process_trade and process_perp_or_cex_trade: services/position_tracker.py *)

\* TradeResult(success=False) with the dataclass defaults.  message is the tuple
\* of the parts the f-string joins, () being the empty message.
NewResult ==
    [success |-> FALSE, trade_id |-> 0, position_id |-> 0, token_symbol |-> None,
     message |-> <<>>, trade_type |-> None, amount_spent |-> NoneF,
     spend_currency |-> None, amount_tokens |-> NoneF, price_usd |-> NoneF,
     market_cap |-> NoneF, position_summary |-> <<>>]

\* format_position_summary: its first line, "Position: {symbol} ({status})".
format_position_summary(db, position_id) ==
    <<"Position: ", db.tokens[db.positions[position_id].token_id].symbol,
      " (", db.positions[position_id].status, ")">>

\* Steps 3 of process_trade and of process_perp_or_cex_trade: find or create the
\* position.  created tells a SELL that found no open position.
FindOrCreatePosition(db, token_id) ==
    LET open == get_open_position(db, token_id)
    IN  IF open = 0
        THEN LET c == create_position(db, token_id)
             IN  [db |-> c.db, position_id |-> c.id, created |-> TRUE]
        ELSE [db |-> db, position_id |-> open, created |-> FALSE]

\* Step 7: the result of a recorded trade, with the summary of the position.
TradeRecorded(db, position_id, trade_id, result) ==
    [db |-> db,
     result |-> [result EXCEPT !.trade_id = trade_id,
                               !.position_summary = format_position_summary(db, position_id),
                               !.success = TRUE]]

\* Mutant: the position is updated for every trade, a missing amount counting as 0.
RecordAndUpdate_MissingAsZero(db, position_id, row, result) ==
    TradeRecorded(update_position_from_trade(create_trade(db, row).db, position_id,
                 db.positions[position_id], row.trade_type,
                 OrZero(row.amount_tokens), OrZero(row.total_value_usd)),
             position_id, Len(db.trades) + 1, result)

\* Steps 5 to 7, common to both functions: create the trade, update the position
\* from the row read in step 3, summarise.
RecordAndUpdate(db, position_id, row, result) ==
    TradeRecorded(IF Truthy(row.amount_tokens) /\ Truthy(row.total_value_usd)
             THEN update_position_from_trade(create_trade(db, row).db, position_id,
                      db.positions[position_id], row.trade_type,
                      row.amount_tokens, row.total_value_usd)
             ELSE create_trade(db, row).db,
             position_id, Len(db.trades) + 1, result)

\* str.title() on the exchange names of the model.
Title(s) ==
    CASE s = "hyperliquid" -> "Hyperliquid"
      [] s = "binance" -> "Binance"
      [] s = "bybit" -> "Bybit"
      [] s = "dydx" -> "Dydx"
      [] s = "gmx" -> "Gmx"
      [] s = "unknown" -> "Unknown"
      [] OTHER -> s

IsUsdStable(c) == c \in {"USD", "USDC", "USDT", "DAI"}
IsUsdPerp(c) == c \in {"USD", "USDC", "USDT"}

\* The message process_perp_or_cex_trade sets after the trade is recorded.
PerpRecorded(r, message) == [db |-> r.db, result |-> [r.result EXCEPT !.message = message]]

\* Steps 4 to 7 of process_perp_or_cex_trade if the trade counted as one
\* contract instead of its USD size.
PerpTradeOnPosition_OneContract(parsed, result0, symbol, exchange, token_id, pos) ==
    LET total_value_usd == IF IsUsdPerp(parsed.spend_currency) THEN parsed.amount_spent
                           ELSE NoneF
        amount_tokens == IF Truthy(total_value_usd) THEN Num(1) ELSE NoneF
    IN  PerpRecorded(
            RecordAndUpdate(pos.db, pos.position_id,
                [token_id |-> token_id, trade_type |-> parsed.trade_type,
                 position_id |-> pos.position_id, amount_spent |-> parsed.amount_spent,
                 spend_currency |-> parsed.spend_currency, amount_tokens |-> amount_tokens,
                 price_usd |-> Num(1), total_value_usd |-> total_value_usd,
                 market_cap_at_trade |-> NoneF, source_message |-> parsed.raw_message,
                 notes_url |-> parsed.notes_url, dex_screener_url |-> None],
                [result0 EXCEPT !.trade_type = parsed.trade_type,
                                !.token_symbol = symbol,
                                !.amount_spent = parsed.amount_spent,
                                !.spend_currency = parsed.spend_currency,
                                !.position_id = pos.position_id,
                                !.amount_tokens = amount_tokens]),
            <<symbol, IF parsed.is_perp THEN " perp" ELSE " spot",
              " on ", Title(exchange), " recorded">>)

\* Steps 4 to 7 of process_perp_or_cex_trade, the token and the position known.
PerpTradeOnPosition(parsed, result0, symbol, exchange, token_id, pos) ==
    LET total_value_usd == IF IsUsdPerp(parsed.spend_currency) THEN parsed.amount_spent
                           ELSE NoneF
        amount_tokens == IF Truthy(total_value_usd) THEN total_value_usd ELSE NoneF
    IN  PerpRecorded(
            RecordAndUpdate(pos.db, pos.position_id,
                [token_id |-> token_id, trade_type |-> parsed.trade_type,
                 position_id |-> pos.position_id, amount_spent |-> parsed.amount_spent,
                 spend_currency |-> parsed.spend_currency, amount_tokens |-> amount_tokens,
                 price_usd |-> Num(1), total_value_usd |-> total_value_usd,
                 market_cap_at_trade |-> NoneF, source_message |-> parsed.raw_message,
                 notes_url |-> parsed.notes_url, dex_screener_url |-> None],
                [result0 EXCEPT !.trade_type = parsed.trade_type,
                                !.token_symbol = symbol,
                                !.amount_spent = parsed.amount_spent,
                                !.spend_currency = parsed.spend_currency,
                                !.position_id = pos.position_id,
                                !.amount_tokens = amount_tokens]),
            <<symbol, IF parsed.is_perp THEN " perp" ELSE " spot",
              " on ", Title(exchange), " recorded">>)

\* Step 3 of process_perp_or_cex_trade, the token known.
PerpTradeOnToken(parsed, result0, symbol, exchange, tk) ==
    PerpTradeOnPosition(parsed, result0, symbol, exchange, tk.id,
                        FindOrCreatePosition(tk.db, tk.id))

\* Steps 1 and 2 of process_perp_or_cex_trade: the synthetic token.
PerpToken(db, parsed, symbol, exchange) ==
    get_or_create_token(db, symbol \o "_" \o exchange, exchange, symbol,
        symbol \o (IF parsed.is_perp THEN " Perp" ELSE " Spot") \o " on " \o Title(exchange))

process_perp_or_cex_trade(db, parsed, result0) ==
    LET symbol == IF StrTruthy(parsed.token_symbol) THEN parsed.token_symbol ELSE "UNKNOWN"
        exchange == IF StrTruthy(parsed.exchange) THEN parsed.exchange ELSE "unknown"
    IN  PerpTradeOnToken(parsed, result0, symbol, exchange,
                         PerpToken(db, parsed, symbol, exchange))

\* Step 1 of process_trade: the two resolver calls inside one try block.
\* resp answers search_token, presp the pairs endpoint.
LookupAfterSearch(parsed, presp, first) ==
    IF first.found \/ ~StrTruthy(parsed.chain)
    THEN [info |-> first, message |-> <<>>]
    ELSE IF presp.kind = "error"
         THEN [info |-> NoInfo,
               message |-> <<"Warning: Could not fetch price - ", presp.text>>]
         ELSE [info |-> get_pair_info(presp, parsed.contract_address),
               message |-> <<>>]

LookupToken(parsed, resp, presp) ==
    IF resp.kind = "error"
    THEN [info |-> NoInfo, message |-> <<"Warning: Could not fetch price - ", resp.text>>]
    ELSE LookupAfterSearch(parsed, presp,
             get_token_info(resp.pairs, parsed.contract_address, parsed.chain))

\* The resolver calls step 1 makes, in order: an exception in the first leaves
\* the try block, so the second is made only after a first that found nothing.
ResolverCalls(parsed, resp) ==
    IF resp.kind = "error" THEN <<"get_token_info">>
    ELSE IF get_token_info(resp.pairs, parsed.contract_address, parsed.chain).found
            \/ ~StrTruthy(parsed.chain)
         THEN <<"get_token_info">>
         ELSE <<"get_token_info", "get_pair_info">>

\* The end of process_trade: the default message of a recorded trade.
SpotRecorded(r) ==
    [db |-> r.db,
     result |-> [r.result EXCEPT !.message =
                    IF @ = <<>> THEN <<"Trade recorded successfully">> ELSE @]]

\* Steps 4 to 7 of process_trade, the token and the position known.
SpotTradeOnPosition(parsed, result0, look, symbol, token_id, pos) ==
    LET token_info == look.info
        priced == /\ Truthy(parsed.amount_spent) /\ token_info.found
                  /\ Truthy(token_info.price_usd)
                  /\ IsUsdStable(parsed.spend_currency)
        amount_tokens == IF priced THEN FDiv(parsed.amount_spent, token_info.price_usd)
                         ELSE NoneF
        total_value_usd == IF priced THEN parsed.amount_spent ELSE NoneF
    IN  SpotRecorded(
            RecordAndUpdate(pos.db, pos.position_id,
                [token_id |-> token_id, trade_type |-> parsed.trade_type,
                 position_id |-> pos.position_id, amount_spent |-> parsed.amount_spent,
                 spend_currency |-> parsed.spend_currency, amount_tokens |-> amount_tokens,
                 price_usd |-> token_info.price_usd, total_value_usd |-> total_value_usd,
                 market_cap_at_trade |-> IF Truthy(parsed.market_cap) THEN parsed.market_cap
                                         ELSE token_info.market_cap,
                 source_message |-> parsed.raw_message,
                 notes_url |-> parsed.notes_url,
                 dex_screener_url |-> IF StrTruthy(parsed.dex_screener_url)
                                      THEN parsed.dex_screener_url
                                      ELSE token_info.dex_url],
                [result0 EXCEPT !.message =
                                    IF parsed.trade_type # "BUY" /\ pos.created
                                    THEN <<"No open position found for ",
                                           IF StrTruthy(symbol) THEN symbol
                                           ELSE parsed.contract_address,
                                           ". Recording trade anyway.">>
                                    ELSE look.message,
                                !.price_usd = token_info.price_usd,
                                !.market_cap = token_info.market_cap,
                                !.token_symbol = symbol,
                                !.position_id = pos.position_id,
                                !.amount_spent = parsed.amount_spent,
                                !.spend_currency = parsed.spend_currency,
                                !.amount_tokens = amount_tokens]))

\* Step 3 of process_trade, the token known.
SpotTradeOnToken(parsed, result0, look, symbol, tk) ==
    SpotTradeOnPosition(parsed, result0, look, symbol, tk.id,
                        FindOrCreatePosition(tk.db, tk.id))

\* Step 2 of process_trade, the resolver's answer known.
SpotTradeAfterLookup(db, parsed, result0, look) ==
    LET token_info == look.info
        chain0 == IF token_info.found THEN token_info.chain ELSE parsed.chain
        symbol == IF token_info.found THEN token_info.symbol ELSE parsed.token_symbol
    IN  SpotTradeOnToken(parsed, result0, look, symbol,
            get_or_create_token(db, parsed.contract_address,
                IF StrTruthy(chain0) THEN chain0 ELSE "unknown",
                symbol,
                IF token_info.found THEN token_info.name ELSE None))

process_spot_trade(db, parsed, result0, resp, presp) ==
    SpotTradeAfterLookup(db, parsed, result0, LookupToken(parsed, resp, presp))

\* process_trade(parsed): the store after it and the TradeResult it returns.
process_trade(db, parsed0, resp, presp) ==
    LET parsed == [parsed0 EXCEPT !.trade_type = IF StrTruthy(@) THEN @ ELSE "BUY"]
        result == [NewResult EXCEPT !.trade_type = parsed.trade_type]
    IN  IF parsed.is_perp \/ (StrTruthy(parsed.exchange) /\ ~StrTruthy(parsed.contract_address))
        THEN process_perp_or_cex_trade(db, parsed, result)
        ELSE IF ~StrTruthy(parsed.contract_address)
             THEN [db |-> db,
                   result |-> [result EXCEPT !.message = <<"No contract address found">>]]
             ELSE process_spot_trade(db, parsed, result, resp, presp)

-----------------------------------------------------------------------------
(* Inputs of process_trade *)

\* ParsedTrade() with the dataclass defaults.
NewParsedTrade ==
    [trade_type |-> None, contract_address |-> None, chain |-> None,
     token_symbol |-> None, amount_spent |-> NoneF, spend_currency |-> None,
     market_cap |-> NoneF, notes_url |-> None, dex_screener_url |-> None,
     is_perp |-> FALSE, exchange |-> None, position_type |-> None,
     raw_message |-> "", parse_confidence |-> "low", missing_fields |-> <<>>]

Address1 == "0x20DD04c17AFD5c9a8b3f2cdacaa8Ee7907385BEF"
TradeTypes == {"BUY", "SELL"}
UsdAmounts == {Num(100), Num(150), Num(300)}
Prices == {Rat(1, 10), Rat(3, 10)}

\* A listing of Address1 on base as the tokens endpoint returns it.
Listing(chainId, price, liquidity) ==
    [chainId |-> chainId, baseAddress |-> LowerStr(Address1), baseSymbol |-> "PEPE",
     quoteAddress |-> "0xquote", quoteSymbol |-> "WETH", priceUsd |-> price,
     marketCap |-> NoneF, liquidity |-> liquidity, pairAddress |-> "0xpair"]

Found(price) == [kind |-> "ok", pairs |-> <<Listing("base", price, Num(5000))>>, text |-> ""]
NotFound == [kind |-> "ok", pairs |-> <<>>, text |-> ""]
TimedOut == [kind |-> "error", pairs |-> <<>>,
             text |-> "DEX Screener API timed out. Please try again."]
RateLimited == [kind |-> "error", pairs |-> <<>>,
                text |-> "Rate limited by DEX Screener. Please wait a moment."]

SpotTrade(ty, amount, currency) ==
    [NewParsedTrade EXCEPT !.trade_type = ty, !.contract_address = Address1,
                           !.chain = "base", !.amount_spent = amount,
                           !.spend_currency = currency]

PerpTrade(ty, amount, currency) ==
    [NewParsedTrade EXCEPT !.trade_type = ty, !.token_symbol = "HYPE",
                           !.is_perp = TRUE, !.exchange = "hyperliquid",
                           !.chain = "hyperliquid", !.position_type = "LONG",
                           !.amount_spent = amount, !.spend_currency = currency,
                           !.parse_confidence = "medium"]

Scenario(parsed, resp, presp) == [parsed |-> parsed, resp |-> resp, presp |-> presp]

\* Spot trades in USD that the resolver prices.
PricedScenarios ==
    {Scenario(SpotTrade(ty, a, "USD"), Found(p), NotFound) :
        ty \in TradeTypes, a \in UsdAmounts, p \in Prices}

\* Spot trades whose token amount or USD value cannot be determined: spent in ETH,
\* no amount parsed, token not found, resolver error on either endpoint.
UnpricedScenarios ==
    {Scenario(SpotTrade(ty, Num(100), "ETH"), Found(Rat(1, 10)), NotFound) : ty \in TradeTypes}
    \cup {Scenario(SpotTrade(ty, NoneF, None), Found(Rat(1, 10)), NotFound) : ty \in TradeTypes}
    \cup {Scenario(SpotTrade(ty, Num(100), "USD"), NotFound, NotFound) : ty \in TradeTypes}
    \cup {Scenario(SpotTrade(ty, Num(100), "USD"), TimedOut, NotFound) : ty \in TradeTypes}
    \cup {Scenario(SpotTrade(ty, Num(100), "USD"), NotFound, RateLimited) : ty \in TradeTypes}

\* Perp trades, sized in USD or in ETH, and a smaller one sized in USDC.
PerpScenarios ==
    {Scenario(PerpTrade(ty, Num(100), c), NotFound, NotFound) :
        ty \in TradeTypes, c \in {"USD", "ETH"}}
    \cup {Scenario(PerpTrade(ty, Num(30), "USDC"), NotFound, NotFound) : ty \in TradeTypes}

\* A trade with no direction (defaults to BUY) and an exit by ticker with no address.
OtherScenarios ==
    {Scenario(SpotTrade(None, Num(100), "USD"), Found(Rat(1, 10)), NotFound),
     Scenario([NewParsedTrade EXCEPT !.trade_type = "SELL", !.amount_spent = Num(3000),
                                     !.spend_currency = "USD",
                                     !.missing_fields = <<"contract_address">>],
              NotFound, NotFound)}

Scenarios == PricedScenarios \cup UnpricedScenarios \cup PerpScenarios \cup OtherScenarios

-----------------------------------------------------------------------------
(* Text matching: parsing/patterns.py.  A text is a tuple of characters; a  *)
(* pattern compiled with re.IGNORECASE is matched on the lowered text and   *)
(* its groups are cut from the text itself.  A position is an index into    *)
(* the text, a match end is the index after the match, 0 is "no match".     *)

ascii_uppercase == <<"A", "B", "C", "D", "E", "F", "G", "H", "I", "J", "K", "L", "M", "N", "O",
          "P", "Q", "R", "S", "T", "U", "V", "W", "X", "Y", "Z">>
ascii_lowercase == <<"a", "b", "c", "d", "e", "f", "g", "h", "i", "j", "k", "l", "m", "n", "o",
          "p", "q", "r", "s", "t", "u", "v", "w", "x", "y", "z">>
digits == <<"0", "1", "2", "3", "4", "5", "6", "7", "8", "9">>

Range(s) == {s[k] : k \in 1..Len(s)}
UpperLetters == Range(ascii_uppercase)
LowerLetters == Range(ascii_lowercase)
Letters == UpperLetters \cup LowerLetters
Digits == Range(digits)
\* \w, \s and [\d,] on the characters of the model.
WordChars == Letters \cup Digits \cup {"_"}
Spaces == {" ", "\n", "\t"}
DigitsComma == Digits \cup {","}
HexChars == Digits \cup Range(<<"a", "b", "c", "d", "e", "f", "A", "B", "C", "D", "E", "F">>)
\* [1-9A-HJ-NP-Za-km-z]
Base58Chars == (Letters \cup Digits) \ {"0", "O", "I", "l"}

IndexIn(s, c) == CHOOSE k \in 1..Len(s) : s[k] = c
LowerChar(c) == IF c \in UpperLetters THEN ascii_lowercase[IndexIn(ascii_uppercase, c)] ELSE c
UpperChar(c) == IF c \in LowerLetters THEN ascii_uppercase[IndexIn(ascii_lowercase, c)] ELSE c
\* str.lower(), str.upper()
lower(t) == [k \in 1..Len(t) |-> LowerChar(t[k])]
upper(t) == [k \in 1..Len(t) |-> UpperChar(t[k])]

\* The str of a tuple of characters.
RECURSIVE Str(_)
Str(t) ==
    IF t = <<>> THEN ""
    ELSE IF Len(t) = 1 THEN t[1]
    ELSE Str(SubSeq(t, 1, Len(t) \div 2)) \o Str(SubSeq(t, Len(t) \div 2 + 1, Len(t)))

At(t, i) == IF i >= 1 /\ i <= Len(t) THEN t[i] ELSE ""
Slice(t, i, j) == SubSeq(t, i, j - 1)

\* \b at position i: exactly one of the characters around it is a word character.
WordBoundary(t, i) == (At(t, i - 1) \in WordChars) # (At(t, i) \in WordChars)

\* The end of the longest run of characters of class C from position i.
RunEnd(t, i, C) == MinOf({j \in i..(Len(t) + 1) : At(t, j) \notin C})

\* \s* from position i.
SkipSpaces(t, i) == RunEnd(t, i, Spaces)

\* The literal lit at position i of the lowered text.
LitEnd(lt, i, lit) ==
    IF i >= 1 /\ i + Len(lit) - 1 <= Len(lt) /\ \A k \in 1..Len(lit) : lt[i + k - 1] = lit[k]
    THEN i + Len(lit)
    ELSE 0

\* One of the literals at position i: the ends of those that match.
AnyLitEnds(lt, i, lits) == {LitEnd(lt, i, lit) : lit \in lits} \ {0}

\* \b(?:lit|lit|...)\b at position i.
WordOfAt(lt, i, lits) ==
    /\ WordBoundary(lt, i)
    /\ \E e \in AnyLitEnds(lt, i, lits) : WordBoundary(lt, e)

\* text.find(lit) >= 0 on the lowered text.
Contains(lt, lit) == \E i \in 1..Len(lt) : LitEnd(lt, i, lit) # 0

\* [\d,]+(?:\.\d+)? at position i: its end.  The runs are taken whole, since
\* nothing that may follow the number in a pattern starts with a digit.
NumberEnd(t, i) ==
    IF At(t, i) \notin DigitsComma THEN 0
    ELSE IF At(t, RunEnd(t, i, DigitsComma)) = "."
            /\ At(t, RunEnd(t, i, DigitsComma) + 1) \in Digits
         THEN RunEnd(t, RunEnd(t, i, DigitsComma) + 1, Digits)
         ELSE RunEnd(t, i, DigitsComma)

\* int() of a tuple of digits; the empty tuple counts 0.
RECURSIVE IntOf(_)
IntOf(s) ==
    IF s = <<>> THEN 0
    ELSE 10 * IntOf(SubSeq(s, 1, Len(s) - 1)) + (IndexIn(digits, s[Len(s)]) - 1)

RECURSIVE Pow10(_)
Pow10(k) == IF k = 0 THEN 1 ELSE 10 * Pow10(k - 1)

IsDigit(c) == c \in Digits
IsNotComma(c) == c # ","

\* float(s) of a text matched by [\d,]*(?:\.\d+)? with the commas removed.
float(s) ==
    Rat(IntOf(SelectSeq(s, IsDigit)),
        IF \E k \in 1..Len(s) : s[k] = "."
        THEN Pow10(Len(s) - IndexIn(s, "."))
        ELSE 1)

\* parse_number_with_suffix raises ValueError: float('') of a value of commas only.
parse_number_raises(value) == SelectSeq(value, IsNotComma) = <<>>

multipliers(suffix) ==
    CASE UpperChar(suffix) = "K" -> 1000
      [] UpperChar(suffix) = "M" -> 1000000
      [] UpperChar(suffix) = "B" -> 1000000000
      [] OTHER -> 1

\* parse_number_with_suffix(value, suffix); suffix "" stands for None.
parse_number_with_suffix(value, suffix) ==
    IF suffix # ""
    THEN FMul(float(SelectSeq(value, IsNotComma)), Num(multipliers(suffix)))
    ELSE float(SelectSeq(value, IsNotComma))

\* BUY_KEYWORDS_PATTERN: \b(bought|buy|...|added)\b
BUY_KEYWORDS ==
    {<<"b", "o", "u", "g", "h", "t">>, <<"b", "u", "y">>, <<"b", "u", "y", "i", "n", "g">>, <<"e", "n", "t", "e", "r", "e", "d">>, <<"e", "n", "t", "r", "y">>, <<"a", "p", "e">>, <<"a", "p", "e", "d">>,
     <<"a", "p", "i", "n", "g">>, <<"g", "r", "a", "b", "b", "e", "d">>, <<"s", "n", "i", "p", "e", "d">>, <<"s", "n", "i", "p", "i", "n", "g">>, <<"l", "o", "n", "g", "e", "d">>, <<"l", "o", "n", "g">>, <<"i", "n">>,
     <<"a", "d", "d", "e", "d">>}

\* SELL_KEYWORDS_PATTERN without took\s*profit; shorte?d? is short, shorte, shortd
\* or shorted.
SELL_KEYWORDS ==
    {<<"s", "o", "l", "d">>, <<"s", "e", "l", "l">>, <<"s", "e", "l", "l", "i", "n", "g">>, <<"e", "x", "i", "t">>, <<"e", "x", "i", "t", "e", "d">>, <<"e", "x", "i", "t", "i", "n", "g">>, <<"o", "u", "t">>,
     <<"d", "u", "m", "p", "e", "d">>, <<"t", "p">>, <<"c", "l", "o", "s", "e", "d">>, <<"s", "h", "o", "r", "t">>, <<"s", "h", "o", "r", "t", "e">>, <<"s", "h", "o", "r", "t", "d">>, <<"s", "h", "o", "r", "t", "e", "d">>}

\* \btook\s*profit\b at position i.
TookProfitAt(lt, i) ==
    /\ WordBoundary(lt, i)
    /\ LitEnd(lt, i, <<"t", "o", "o", "k">>) # 0
    /\ LitEnd(lt, SkipSpaces(lt, i + 4), <<"p", "r", "o", "f", "i", "t">>) # 0
    /\ WordBoundary(lt, SkipSpaces(lt, i + 4) + 6)

\* The starts of the matches of BUY_KEYWORDS_PATTERN and SELL_KEYWORDS_PATTERN.
BuyStarts(lt) == {i \in 1..Len(lt) : WordOfAt(lt, i, BUY_KEYWORDS)}
SellStarts(lt) ==
    {i \in 1..Len(lt) : WordOfAt(lt, i, SELL_KEYWORDS) \/ TookProfitAt(lt, i)}

\* Mutant: when keywords of both directions occur, SELL whatever their order.
TradeTypeOf_SellWins(buys, sells) ==
    IF buys # {} /\ sells = {} THEN "BUY"
    ELSE IF sells # {} THEN "SELL"
    ELSE None

\* detect_trade_type(text), the starts of the keyword matches known.
TradeTypeOf(buys, sells) ==
    IF buys # {} /\ sells = {} THEN "BUY"
    ELSE IF sells # {} /\ buys = {} THEN "SELL"
    ELSE IF buys # {} /\ sells # {}
         THEN IF MinOf(buys) < MinOf(sells) THEN "BUY" ELSE "SELL"
         ELSE None

detect_trade_type(lt) == TradeTypeOf(BuyStarts(lt), SellStarts(lt))

\* ([KkMmBb])? on the lowered text.
SuffixChars == {"k", "m", "b"}

\* USD_AMOUNT_PATTERN at position i: \$\s*([\d,]+(?:\.\d+)?)\s*([KkMmBb])?
\* The match, the end of the number known; suffix "" is an unmatched group.
UsdMatchOf(lt, t, from, to) ==
    [value |-> Slice(t, from, to),
     suffix |-> IF At(lt, SkipSpaces(t, to)) \in SuffixChars
                THEN t[SkipSpaces(t, to)] ELSE "",
     end |-> IF At(lt, SkipSpaces(t, to)) \in SuffixChars
             THEN SkipSpaces(t, to) + 1 ELSE SkipSpaces(t, to)]

UsdMatchesAt(t, i) == At(t, i) = "$" /\ NumberEnd(t, SkipSpaces(t, i + 1)) # 0

UsdMatchAt(lt, t, i) ==
    UsdMatchOf(lt, t, SkipSpaces(t, i + 1), NumberEnd(t, SkipSpaces(t, i + 1)))

\* USD_AMOUNT_PATTERN.finditer(text) from position p: the matches, left to right.
RECURSIVE UsdMatchesFrom(_, _, _)
UsdMatchesFrom(lt, t, p) ==
    IF \E i \in p..Len(t) : UsdMatchesAt(t, i)
    THEN <<UsdMatchAt(lt, t, MinOf({i \in p..Len(t) : UsdMatchesAt(t, i)}))>>
         \o UsdMatchesFrom(lt, t,
                UsdMatchAt(lt, t, MinOf({i \in p..Len(t) : UsdMatchesAt(t, i)})).end)
    ELSE <<>>

\* The amounts of a list of matches.
AmountsOf(ms) == [k \in 1..Len(ms) |-> parse_number_with_suffix(ms[k].value, ms[k].suffix)]
AmountsRaise(ms) == \E k \in 1..Len(ms) : parse_number_raises(ms[k].value)

\* extract_usd_amounts(text), and whether it raises.
extract_usd_amounts(lt, t) == AmountsOf(UsdMatchesFrom(lt, t, 1))
extract_usd_amounts_raises(lt, t) == AmountsRaise(UsdMatchesFrom(lt, t, 1))

\* (ETH|SOL|BTC|USDC|USDT|BNB|MATIC|AVAX|FTM)
CURRENCIES ==
    {<<"e", "t", "h">>, <<"s", "o", "l">>, <<"b", "t", "c">>, <<"u", "s", "d", "c">>, <<"u", "s", "d", "t">>, <<"b", "n", "b">>, <<"m", "a", "t", "i", "c">>, <<"a", "v", "a", "x">>,
     <<"f", "t", "m">>}

\* \s*([KkMmBb])?\s*(?:lits) after a number that ends at position n: where the
\* literal starts.  The suffix is tried first; 0 if neither way matches.
SuffixThenLit(lt, n, lits) ==
    IF /\ At(lt, SkipSpaces(lt, n)) \in SuffixChars
       /\ AnyLitEnds(lt, SkipSpaces(lt, SkipSpaces(lt, n) + 1), lits) # {}
    THEN SkipSpaces(lt, SkipSpaces(lt, n) + 1)
    ELSE IF AnyLitEnds(lt, SkipSpaces(lt, n), lits) # {}
         THEN SkipSpaces(lt, n)
         ELSE 0

\* The suffix group of that match: "" if the literal starts right after the spaces.
SuffixBefore(lt, t, n, at) == IF at = SkipSpaces(lt, n) THEN "" ELSE t[SkipSpaces(lt, n)]

\* CRYPTO_AMOUNT_PATTERN at position i:
\* ([\d,]+(?:\.\d+)?)\s*([KkMmBb])?\s*(ETH|SOL|...)
CryptoMatchesAt(lt, i) ==
    NumberEnd(lt, i) # 0 /\ SuffixThenLit(lt, NumberEnd(lt, i), CURRENCIES) # 0

CryptoMatchOf(lt, t, i, n, at) ==
    [value |-> Slice(t, i, n),
     suffix |-> SuffixBefore(lt, t, n, at),
     currency |-> Str(upper(Slice(t, at, MaxOf(AnyLitEnds(lt, at, CURRENCIES))))),
     end |-> MaxOf(AnyLitEnds(lt, at, CURRENCIES))]

CryptoMatchAt(lt, t, i) ==
    CryptoMatchOf(lt, t, i, NumberEnd(lt, i),
                  SuffixThenLit(lt, NumberEnd(lt, i), CURRENCIES))

\* CRYPTO_AMOUNT_PATTERN.finditer(text) from position p.
RECURSIVE CryptoMatchesFrom(_, _, _)
CryptoMatchesFrom(lt, t, p) ==
    IF \E i \in p..Len(t) : CryptoMatchesAt(lt, i)
    THEN <<CryptoMatchAt(lt, t, MinOf({i \in p..Len(t) : CryptoMatchesAt(lt, i)}))>>
         \o CryptoMatchesFrom(lt, t,
                CryptoMatchAt(lt, t, MinOf({i \in p..Len(t) : CryptoMatchesAt(lt, i)})).end)
    ELSE <<>>

\* extract_crypto_amounts(text): the (amount, currency) pairs, and whether it raises.
extract_crypto_amounts(lt, t) ==
    [k \in 1..Len(CryptoMatchesFrom(lt, t, 1)) |->
        [amount |-> parse_number_with_suffix(CryptoMatchesFrom(lt, t, 1)[k].value,
                                             CryptoMatchesFrom(lt, t, 1)[k].suffix),
         currency |-> CryptoMatchesFrom(lt, t, 1)[k].currency]]
extract_crypto_amounts_raises(lt, t) == AmountsRaise(CryptoMatchesFrom(lt, t, 1))

\* (?:mcap|mc|market\s*cap) at position i: mc matches wherever mcap does.
McapAt(lt, i) ==
    \/ LitEnd(lt, i, <<"m", "c">>) # 0
    \/ /\ LitEnd(lt, i, <<"m", "a", "r", "k", "e", "t">>) # 0
       /\ LitEnd(lt, SkipSpaces(lt, i + 6), <<"c", "a", "p">>) # 0

\* \s*([KkMmBb])?\s*(?:mcap|mc|market\s*cap) after a number that ends at n.
SuffixThenMcap(lt, n) ==
    IF /\ At(lt, SkipSpaces(lt, n)) \in SuffixChars
       /\ McapAt(lt, SkipSpaces(lt, SkipSpaces(lt, n) + 1))
    THEN SkipSpaces(lt, SkipSpaces(lt, n) + 1)
    ELSE IF McapAt(lt, SkipSpaces(lt, n)) THEN SkipSpaces(lt, n) ELSE 0

\* MARKET_CAP_PATTERN at position i: where its number starts, after (?:\$\s*)?
McapNumberStart(lt, i) == IF At(lt, i) = "$" THEN SkipSpaces(lt, i + 1) ELSE i

McapMatchesAt(lt, i) ==
    /\ NumberEnd(lt, McapNumberStart(lt, i)) # 0
    /\ SuffixThenMcap(lt, NumberEnd(lt, McapNumberStart(lt, i))) # 0

McapMatchOf(lt, t, from, n) ==
    [value |-> Slice(t, from, n),
     suffix |-> SuffixBefore(lt, t, n, SuffixThenMcap(lt, n))]

\* MARKET_CAP_PATTERN.search(text): the groups of the leftmost match.
McapMatch(lt, t, i) ==
    McapMatchOf(lt, t, McapNumberStart(lt, i), NumberEnd(lt, McapNumberStart(lt, i)))

McapStarts(lt) == {i \in 1..Len(lt) : McapMatchesAt(lt, i)}

\* extract_market_cap(text), and whether it raises.
extract_market_cap(lt, t) ==
    IF McapStarts(lt) = {} THEN NoneF
    ELSE parse_number_with_suffix(McapMatch(lt, t, MinOf(McapStarts(lt))).value,
                                  McapMatch(lt, t, MinOf(McapStarts(lt))).suffix)
extract_market_cap_raises(lt, t) ==
    McapStarts(lt) # {} /\ parse_number_raises(McapMatch(lt, t, MinOf(McapStarts(lt))).value)

\* [^\s<>...]: the characters a URL stops at, and the end of the text.  Of the
\* characters the pattern excludes, the double quote, the backslash, the caret and
\* the backtick occur in no text of the model.
UrlStops == Spaces \cup {"<", ">", "{", "}", "|", "[", "]", ""}

\* https?:// at position i: its end.
SchemeEnd(lt, i) ==
    IF LitEnd(lt, i, <<"h", "t", "t", "p", "s", ":", "/", "/">>) # 0 THEN i + 8
    ELSE IF LitEnd(lt, i, <<"h", "t", "t", "p", ":", "/", "/">>) # 0 THEN i + 7 ELSE 0

\* URL_PATTERN at position i: its end, 0 if no match.
UrlEnd(lt, i) ==
    IF SchemeEnd(lt, i) # 0 /\ At(lt, SchemeEnd(lt, i)) \notin UrlStops
    THEN MinOf({j \in SchemeEnd(lt, i)..(Len(lt) + 1) : At(lt, j) \in UrlStops})
    ELSE 0

\* URL_PATTERN.findall(text) from position p: the (start, end) of the matches.
RECURSIVE UrlsFrom(_, _)
UrlsFrom(lt, p) ==
    IF \E i \in p..Len(lt) : UrlEnd(lt, i) # 0
    THEN <<[start |-> MinOf({i \in p..Len(lt) : UrlEnd(lt, i) # 0}),
            end |-> UrlEnd(lt, MinOf({i \in p..Len(lt) : UrlEnd(lt, i) # 0}))]>>
         \o UrlsFrom(lt, UrlEnd(lt, MinOf({i \in p..Len(lt) : UrlEnd(lt, i) # 0})))
    ELSE <<>>

dexscreener_com == <<"d", "e", "x", "s", "c", "r", "e", "e", "n", "e", "r", ".", "c", "o", "m">>

\* extract_urls(text): the URLs that do not contain dexscreener.com.
NotDexUrl(lt, m) == ~Contains(Slice(lt, m.start, m.end), dexscreener_com)
UrlTexts(lt, t, ms) ==
    [k \in 1..Len(ms) |->
        IF NotDexUrl(lt, ms[k]) THEN Str(Slice(t, ms[k].start, ms[k].end)) ELSE None]
IsUrl(u) == u # None
extract_urls(lt, t) == SelectSeq(UrlTexts(lt, t, UrlsFrom(lt, 1)), IsUrl)

\* [a-zA-Z0-9_-] and [a-zA-Z0-9]
DexChainChars == Letters \cup Digits \cup {"_", "-"}
AlphaNum == Letters \cup Digits

\* DEXSCREENER_PATTERN at position i, where dexscreener\.com/ starts after the
\* optional scheme.
DexStart(lt, i) == IF SchemeEnd(lt, i) # 0 THEN SchemeEnd(lt, i) ELSE i

\* ... /([a-zA-Z0-9_-]+)/([a-zA-Z0-9]+) from position c, after dexscreener.com/
DexGroupsAt(lt, c) ==
    /\ RunEnd(lt, c, DexChainChars) > c
    /\ At(lt, RunEnd(lt, c, DexChainChars)) = "/"
    /\ At(lt, RunEnd(lt, c, DexChainChars) + 1) \in AlphaNum

DexMatchesAt(lt, i) ==
    /\ LitEnd(lt, DexStart(lt, i), <<"d", "e", "x", "s", "c", "r", "e", "e", "n", "e", "r", ".", "c", "o", "m",
          "/">>) # 0
    /\ DexGroupsAt(lt, DexStart(lt, i) + 16)

DexMatchOf(t, c, slash) ==
    [chain |-> Slice(t, c, slash),
     address |-> Slice(t, slash + 1, RunEnd(t, slash + 1, AlphaNum)),
     end |-> RunEnd(t, slash + 1, AlphaNum)]

DexMatchAt(lt, t, i) ==
    DexMatchOf(t, DexStart(lt, i) + 16, RunEnd(lt, DexStart(lt, i) + 16, DexChainChars))

\* extract_dexscreener_info(text): DEXSCREENER_PATTERN.findall from position p.
RECURSIVE DexMatchesFrom(_, _, _)
DexMatchesFrom(lt, t, p) ==
    IF \E i \in p..Len(t) : DexMatchesAt(lt, i)
    THEN <<DexMatchAt(lt, t, MinOf({i \in p..Len(t) : DexMatchesAt(lt, i)}))>>
         \o DexMatchesFrom(lt, t,
                DexMatchAt(lt, t, MinOf({i \in p..Len(t) : DexMatchesAt(lt, i)})).end)
    ELSE <<>>

extract_dexscreener_info(lt, t) == DexMatchesFrom(lt, t, 1)

\* EVM_ADDRESS_PATTERN at position i: 0x[a-fA-F0-9]{40}
EvmAt(lt, i) ==
    /\ LitEnd(lt, i, <<"0", "x">>) # 0
    /\ RunEnd(lt, i + 2, HexChars) >= i + 42

\* extract_evm_addresses(text): EVM_ADDRESS_PATTERN.findall from position p.
RECURSIVE EvmFrom(_, _, _)
EvmFrom(lt, t, p) ==
    IF \E i \in p..Len(t) : EvmAt(lt, i)
    THEN <<Slice(t, MinOf({i \in p..Len(t) : EvmAt(lt, i)}),
                 MinOf({i \in p..Len(t) : EvmAt(lt, i)}) + 42)>>
         \o EvmFrom(lt, t, MinOf({i \in p..Len(t) : EvmAt(lt, i)}) + 42)
    ELSE <<>>

extract_evm_addresses(lt, t) == EvmFrom(lt, t, 1)

\* SOLANA_ADDRESS_PATTERN at position i: [1-9A-HJ-NP-Za-km-z]{32,44}, its end.
SolanaEnd(t, i) ==
    IF RunEnd(t, i, Base58Chars) - i >= 32
    THEN MinOf({RunEnd(t, i, Base58Chars), i + 44})
    ELSE 0

\* extract_solana_addresses(text): SOLANA_ADDRESS_PATTERN.findall from position p.
RECURSIVE SolanaFrom(_, _)
SolanaFrom(t, p) ==
    IF \E i \in p..Len(t) : SolanaEnd(t, i) # 0
    THEN <<Slice(t, MinOf({i \in p..Len(t) : SolanaEnd(t, i) # 0}),
                 SolanaEnd(t, MinOf({i \in p..Len(t) : SolanaEnd(t, i) # 0})))>>
         \o SolanaFrom(t, SolanaEnd(t, MinOf({i \in p..Len(t) : SolanaEnd(t, i) # 0})))
    ELSE <<>>

extract_solana_addresses(t) == SolanaFrom(t, 1)

\* SPOT_PATTERN: \bspot\b
is_spot_trade(lt) == \E i \in 1..Len(lt) : WordOfAt(lt, i, {<<"s", "p", "o", "t">>})

\* (?:perps?|perpetuals?|futures?)
PERP_WORDS ==
    {<<"p", "e", "r", "p">>, <<"p", "e", "r", "p", "s">>, <<"p", "e", "r", "p", "e", "t", "u", "a", "l">>, <<"p", "e", "r", "p", "e", "t", "u", "a", "l", "s">>, <<"f", "u", "t", "u", "r", "e">>, <<"f", "u", "t", "u", "r", "e", "s">>}

\* \s*(?:perps?|perpetuals?|futures?)\b from position j.
PerpWordAfter(lt, j) ==
    \E e \in AnyLitEnds(lt, SkipSpaces(lt, j), PERP_WORDS) : WordBoundary(lt, e)

\* PERP_PATTERN at position i: the lengths [A-Z]{2,10} can take; it takes the longest.
PerpSymbolLengths(lt, i) ==
    IF WordBoundary(lt, i)
    THEN {k \in 2..10 : RunEnd(lt, i, LowerLetters) >= i + k /\ PerpWordAfter(lt, i + k)}
    ELSE {}

PerpStarts(lt) == {i \in 1..Len(lt) : PerpSymbolLengths(lt, i) # {}}

\* PERP_PATTERN.search(text).group(1)
PerpSymbol(lt, t) ==
    Slice(t, MinOf(PerpStarts(lt)),
          MinOf(PerpStarts(lt)) + MaxOf(PerpSymbolLengths(lt, MinOf(PerpStarts(lt)))))

\* (?:hyperliquid|hl|binance|bybit|dydx|gmx)
EXCHANGE_WORDS ==
    {<<"h", "y", "p", "e", "r", "l", "i", "q", "u", "i", "d">>, <<"h", "l">>, <<"b", "i", "n", "a", "n", "c", "e">>, <<"b", "y", "b", "i", "t">>, <<"d", "y", "d", "x">>, <<"g", "m", "x">>}

\* (?:on\s+)? at position j: where the exchange may start.
AfterOn(lt, j) ==
    IF LitEnd(lt, j, <<"o", "n">>) # 0 /\ At(lt, j + 2) \in Spaces
    THEN {SkipSpaces(lt, j + 2), j}
    ELSE {j}

\* SYMBOL_EXCHANGE_PATTERN at position i:
\* \b([A-Z]{2,10})\s+(?:on\s+)?(?:hyperliquid|hl|binance|bybit|dydx|gmx)\b
\* The symbol is the whole run of letters, since a space must follow it.
SymbolExchangeAt(lt, i) ==
    /\ WordBoundary(lt, i)
    /\ RunEnd(lt, i, LowerLetters) - i \in 2..10
    /\ At(lt, RunEnd(lt, i, LowerLetters)) \in Spaces
    /\ \E j \in AfterOn(lt, SkipSpaces(lt, RunEnd(lt, i, LowerLetters))) :
          \E e \in AnyLitEnds(lt, j, EXCHANGE_WORDS) : WordBoundary(lt, e)

SymbolExchangeStarts(lt) == {i \in 1..Len(lt) : SymbolExchangeAt(lt, i)}

\* SYMBOL_EXCHANGE_PATTERN.search(text).group(1).upper()
SymbolExchangeSymbol(lt, t) ==
    Str(upper(Slice(t, MinOf(SymbolExchangeStarts(lt)),
                    RunEnd(lt, MinOf(SymbolExchangeStarts(lt)), LowerLetters))))

COMMON_PERP_SYMBOLS ==
    {"BTC", "ETH", "SOL", "BNB", "XRP", "ADA", "AVAX", "MATIC", "DOT", "LINK",
     "ARB", "OP", "APT", "SUI", "SEI", "TIA", "INJ", "NEAR", "FTM",
     "UNI", "AAVE", "CRV", "LDO", "MKR", "SNX", "DYDX", "GMX",
     "DOGE", "SHIB", "PEPE", "WIF", "BONK", "FLOKI",
     "JTO", "JUP", "PYTH", "RAY", "ORCA",
     "HYPE", "PURR"}

\* SHORT_PATTERN: \b(?:shorte?d?|short)\b
SHORT_WORDS == {<<"s", "h", "o", "r", "t">>, <<"s", "h", "o", "r", "t", "e">>, <<"s", "h", "o", "r", "t", "d">>, <<"s", "h", "o", "r", "t", "e", "d">>}
ShortMentioned(lt) == \E i \in 1..Len(lt) : WordOfAt(lt, i, SHORT_WORDS)

\* The symbol both is_perp_trade and extract_perp_info look for in the
\* SYMBOL_EXCHANGE_PATTERN match: None unless it is a common perp symbol.
CommonSymbolWithExchange(lt, t) ==
    IF SymbolExchangeStarts(lt) # {} /\ SymbolExchangeSymbol(lt, t) \in COMMON_PERP_SYMBOLS
    THEN SymbolExchangeSymbol(lt, t)
    ELSE None

\* is_perp_trade(text)
is_perp_trade(lt, t) ==
    IF is_spot_trade(lt) THEN FALSE
    ELSE IF PerpStarts(lt) # {} THEN TRUE
    ELSE CommonSymbolWithExchange(lt, t) # None

\* extract_perp_info(text): (symbol, position_type), symbol None for no result.
PerpInfoOf(lt, symbol) ==
    [symbol |-> symbol,
     position_type |-> IF symbol = None THEN None
                       ELSE IF ShortMentioned(lt) THEN "SHORT" ELSE "LONG"]

extract_perp_info(lt, t) ==
    PerpInfoOf(lt, IF PerpStarts(lt) # {} THEN Str(upper(PerpSymbol(lt, t)))
                   ELSE CommonSymbolWithExchange(lt, t))

\* EXCHANGE_PATTERNS, in the order of the dict.
\* binance: \b(?:binance|binance\s*futures?|binance\s*perps?)\b
BinanceAt(lt, i) ==
    /\ WordBoundary(lt, i)
    /\ LitEnd(lt, i, <<"b", "i", "n", "a", "n", "c", "e">>) # 0
    /\ \/ WordBoundary(lt, i + 7)
       \/ \E e \in AnyLitEnds(lt, SkipSpaces(lt, i + 7),
                              {<<"f", "u", "t", "u", "r", "e">>, <<"f", "u", "t", "u", "r", "e", "s">>, <<"p", "e", "r", "p">>, <<"p", "e", "r", "p", "s">>}) :
             WordBoundary(lt, e)

ExchangeMentioned(lt, exchange) ==
    CASE exchange = "hyperliquid" ->
             \E i \in 1..Len(lt) : WordOfAt(lt, i, {<<"h", "y", "p", "e", "r", "l", "i", "q", "u", "i", "d">>, <<"h", "l">>})
      [] exchange = "binance" -> \E i \in 1..Len(lt) : BinanceAt(lt, i)
      [] exchange = "bybit" -> \E i \in 1..Len(lt) : WordOfAt(lt, i, {<<"b", "y", "b", "i", "t">>})
      [] exchange = "dydx" -> \E i \in 1..Len(lt) : WordOfAt(lt, i, {<<"d", "y", "d", "x">>})
      [] exchange = "gmx" -> \E i \in 1..Len(lt) : WordOfAt(lt, i, {<<"g", "m", "x">>})

EXCHANGES == <<"hyperliquid", "binance", "bybit", "dydx", "gmx">>

\* detect_exchange(text)
detect_exchange(lt) ==
    IF \E k \in 1..Len(EXCHANGES) : ExchangeMentioned(lt, EXCHANGES[k])
    THEN EXCHANGES[MinOf({k \in 1..Len(EXCHANGES) : ExchangeMentioned(lt, EXCHANGES[k])})]
    ELSE IF PerpStarts(lt) # {} THEN "hyperliquid" ELSE None

\* extract_cex_spot_info(text): (symbol, exchange), symbol None for no result.
extract_cex_spot_info(lt, t) ==
    IF is_spot_trade(lt) /\ CommonSymbolWithExchange(lt, t) # None
    THEN [symbol |-> CommonSymbolWithExchange(lt, t), exchange |-> detect_exchange(lt)]
    ELSE [symbol |-> None, exchange |-> None]

-----------------------------------------------------------------------------
(* Chain detection: parsing/chain_detector.py *)

\* EVM_CHAINS.get(chain, chain) on a lowered chain name.
normalize_chain_name(chain) ==
    CASE chain = "eth" -> "ethereum"
      [] chain = "bnb" -> "bsc"
      [] chain = "binance" -> "bsc"
      [] chain = "arb" -> "arbitrum"
      [] chain = "matic" -> "polygon"
      [] chain = "op" -> "optimism"
      [] chain = "avax" -> "avalanche"
      [] chain = "ftm" -> "fantom"
      [] chain = "hl" -> "hyperliquid"
      [] OTHER -> chain

\* detect_address_type(address)
detect_address_type(address) ==
    IF /\ Len(address) = 42 /\ address[1] = "0" /\ address[2] = "x"
       /\ \A k \in 3..42 : address[k] \in HexChars
    THEN "evm"
    ELSE IF Len(address) \in 32..44 /\ \A k \in 1..Len(address) : address[k] \in Base58Chars
         THEN "solana"
         ELSE "unknown"

\* chain_mentions of detect_chain_from_text, in order.
chain_mentions ==
    <<[keyword |-> <<"s", "o", "l", "a", "n", "a">>, chain |-> "solana"],
      [keyword |-> <<"o", "n", " ", "s", "o", "l">>, chain |-> "solana"],
      [keyword |-> <<"e", "t", "h", "e", "r", "e", "u", "m">>, chain |-> "ethereum"],
      [keyword |-> <<"o", "n", " ", "e", "t", "h">>, chain |-> "ethereum"],
      [keyword |-> <<"m", "a", "i", "n", "n", "e", "t">>, chain |-> "ethereum"],
      [keyword |-> <<"b", "a", "s", "e">>, chain |-> "base"],
      [keyword |-> <<"o", "n", " ", "b", "a", "s", "e">>, chain |-> "base"],
      [keyword |-> <<"b", "s", "c">>, chain |-> "bsc"],
      [keyword |-> <<"b", "n", "b">>, chain |-> "bsc"],
      [keyword |-> <<"b", "i", "n", "a", "n", "c", "e">>, chain |-> "bsc"],
      [keyword |-> <<"a", "r", "b", "i", "t", "r", "u", "m">>, chain |-> "arbitrum"],
      [keyword |-> <<"a", "r", "b">>, chain |-> "arbitrum"],
      [keyword |-> <<"p", "o", "l", "y", "g", "o", "n">>, chain |-> "polygon"],
      [keyword |-> <<"h", "y", "p", "e", "r", "l", "i", "q", "u", "i", "d">>, chain |-> "hyperliquid"],
      [keyword |-> <<"o", "n", " ", "h", "l">>, chain |-> "hyperliquid"]>>

Mentions(lt) == {k \in 1..Len(chain_mentions) : Contains(lt, chain_mentions[k].keyword)}

\* detect_chain_from_text(text)
detect_chain_from_text(lt) ==
    IF Mentions(lt) = {} THEN None ELSE chain_mentions[MinOf(Mentions(lt))].chain

\* create_chain_info(address, chain, from_dex_link); chain is None or a lowered name.
create_chain_info(address, chain, from_dex_link) ==
    [chain |-> IF ~StrTruthy(chain)
               THEN CASE detect_address_type(address) = "solana" -> "solana"
                      [] detect_address_type(address) = "evm" -> "base"
                      [] OTHER -> "unknown"
               ELSE normalize_chain_name(chain),
     address |-> address,
     address_type |-> detect_address_type(address),
     confidence |-> IF from_dex_link THEN "high"
                    ELSE IF StrTruthy(chain) THEN "medium" ELSE "low"]

-----------------------------------------------------------------------------
(* The pattern-based parser: parsing/message_parser.py *)

\* The addresses of the DEX Screener links, each with the chain of its link.
DexChainInfos(dex_info) ==
    [k \in 1..Len(dex_info) |->
        create_chain_info(dex_info[k].address, Str(lower(dex_info[k].chain)), TRUE)]

\* found_addresses: the lowered addresses collected so far.
FoundAddresses(addresses) == {lower(addresses[k].address) : k \in 1..Len(addresses)}

\* The loop that appends the addresses not collected yet.
RECURSIVE AppendNew(_, _, _)
AppendNew(addresses, candidates, chain) ==
    IF candidates = <<>> THEN addresses
    ELSE IF lower(Head(candidates)) \in FoundAddresses(addresses)
         THEN AppendNew(addresses, Tail(candidates), chain)
         ELSE AppendNew(Append(addresses, create_chain_info(Head(candidates), chain, FALSE)),
                        Tail(candidates), chain)

\* str.isalpha() on the characters of the model.
isalpha(s) == s # <<>> /\ \A k \in 1..Len(s) : s[k] \in Letters
SolanaShaped(addr) == Len(addr) >= 32 /\ ~isalpha(addr)

\* find_all_addresses(text)
WithSolana(lt, t, addresses, evm_addresses) ==
    IF Contains(lt, <<"s", "o", "l", "a", "n", "a">>) \/ evm_addresses = <<>>
    THEN AppendNew(addresses, SelectSeq(extract_solana_addresses(t), SolanaShaped), "solana")
    ELSE addresses

WithEvm(lt, t, addresses, evm_addresses) ==
    WithSolana(lt, t, AppendNew(addresses, evm_addresses, detect_chain_from_text(lt)),
               evm_addresses)

find_all_addresses(lt, t) ==
    WithEvm(lt, t, DexChainInfos(extract_dexscreener_info(lt, t)),
            extract_evm_addresses(lt, t))

\* parse_single_trade(text, None)
NoChainInfo == [chain |-> None, address |-> <<>>, address_type |-> None, confidence |-> None]

\* The amount fields both parsers fill: the first crypto amount, else the first
\* USD amount, else amount_spent is missing.
WithAmounts(trade, usd_amounts, crypto_amounts) ==
    IF crypto_amounts # <<>>
    THEN [trade EXCEPT !.amount_spent = crypto_amounts[1].amount,
                       !.spend_currency = crypto_amounts[1].currency]
    ELSE IF usd_amounts # <<>>
         THEN [trade EXCEPT !.amount_spent = usd_amounts[1], !.spend_currency = "USD"]
         ELSE [trade EXCEPT !.missing_fields = Append(@, "amount_spent")]

WithUrls(trade, urls) == IF urls # <<>> THEN [trade EXCEPT !.notes_url = urls[1]] ELSE trade

WithDexUrl(trade, dex_info) ==
    IF dex_info # <<>>
    THEN [trade EXCEPT !.dex_screener_url =
             "https://dexscreener.com/" \o Str(dex_info[1].chain) \o "/"
                 \o Str(dex_info[1].address)]
    ELSE trade

\* parse_single_trade: the address and the direction.
SingleTradeStart(text, chain_info, trade_type) ==
    [NewParsedTrade EXCEPT
        !.raw_message = text,
        !.contract_address = IF chain_info = NoChainInfo THEN None
                             ELSE Str(chain_info.address),
        !.chain = chain_info.chain,
        !.parse_confidence = IF chain_info = NoChainInfo THEN "low"
                             ELSE chain_info.confidence,
        !.trade_type = IF trade_type = None /\ chain_info # NoChainInfo THEN "BUY"
                       ELSE trade_type,
        !.missing_fields = IF trade_type = None THEN <<"trade_type">> ELSE <<>>]

\* parse_single_trade(text, chain_info)
parse_single_trade(lt, t, text, chain_info) ==
    WithDexUrl(
        WithUrls(
            [WithAmounts(SingleTradeStart(text, chain_info, detect_trade_type(lt)),
                         extract_usd_amounts(lt, t), extract_crypto_amounts(lt, t))
                EXCEPT !.market_cap = extract_market_cap(lt, t)],
            extract_urls(lt, t)),
        extract_dexscreener_info(lt, t))

\* parse_single_trade raises ValueError.
parse_single_trade_raises(lt, t) ==
    \/ extract_usd_amounts_raises(lt, t)
    \/ extract_crypto_amounts_raises(lt, t)
    \/ extract_market_cap_raises(lt, t)

\* parse_perp_trade: the venue and the direction.
PerpTradeStart(text, perp_info, exchange, trade_type) ==
    [NewParsedTrade EXCEPT
        !.raw_message = text,
        !.is_perp = TRUE,
        !.token_symbol = perp_info.symbol,
        !.position_type = perp_info.position_type,
        !.missing_fields = IF perp_info.symbol = None THEN <<"token_symbol">> ELSE <<>>,
        !.exchange = exchange,
        !.chain = exchange,
        !.trade_type = IF trade_type # None THEN trade_type
                       ELSE IF perp_info.position_type = "SHORT" THEN "SELL" ELSE "BUY",
        !.parse_confidence = "medium"]

\* parse_perp_trade(text)
parse_perp_trade(lt, t, text) ==
    WithUrls(
        WithAmounts(PerpTradeStart(text, extract_perp_info(lt, t), detect_exchange(lt),
                                   detect_trade_type(lt)),
                    extract_usd_amounts(lt, t), extract_crypto_amounts(lt, t)),
        extract_urls(lt, t))

\* parse_perp_trade raises ValueError.
parse_perp_trade_raises(lt, t) ==
    extract_usd_amounts_raises(lt, t) \/ extract_crypto_amounts_raises(lt, t)

\* ParseResult(raw_message=text); raised names the exception that left the parser.
NewParseResult(text) ==
    [trades |-> <<>>, raw_message |-> text, success |-> FALSE, error_message |-> None,
     raised |-> None]

Raised(text, exception) == [NewParseResult(text) EXCEPT !.raised = exception]
Parsed(text, trades_) == [NewParseResult(text) EXCEPT !.trades = trades_, !.success = TRUE]
NotParsed(text, message) == [NewParseResult(text) EXCEPT !.error_message = message]

\* parse_message_with_regex, no address found: an exit without an address is
\* handed on, anything else is an error.
ParsedWithoutAddress(text, trade) ==
    IF trade.trade_type = "SELL" /\ ~StrTruthy(trade.contract_address)
    THEN Parsed(text, <<[trade EXCEPT !.missing_fields = Append(@, "contract_address")]>>)
    ELSE NotParsed(text,
             "No contract address found. Please include the contract address or DEX Screener link.")

\* parse_message_with_regex, addresses found: one trade per address.
ParsedWithAddresses(lt, t, text, addresses) ==
    IF parse_single_trade_raises(lt, t) THEN Raised(text, "ValueError")
    ELSE Parsed(text, [k \in 1..Len(addresses) |->
                          parse_single_trade(lt, t, text, addresses[k])])

ParsedSpot(lt, t, text, addresses) ==
    IF addresses = <<>>
    THEN IF parse_single_trade_raises(lt, t) THEN Raised(text, "ValueError")
         ELSE ParsedWithoutAddress(text, parse_single_trade(lt, t, text, NoChainInfo))
    ELSE ParsedWithAddresses(lt, t, text, addresses)

\* parse_message_with_regex(text).  parse_cex_spot_trade is not defined anywhere,
\* so the call of it raises NameError.
RegexParse(lt, t, text) ==
    IF is_perp_trade(lt, t)
    THEN IF parse_perp_trade_raises(lt, t) THEN Raised(text, "ValueError")
         ELSE Parsed(text, <<parse_perp_trade(lt, t, text)>>)
    ELSE IF extract_cex_spot_info(lt, t).symbol # None
         THEN Raised(text, "NameError")
         ELSE ParsedSpot(lt, t, text, find_all_addresses(lt, t))

parse_message_with_regex(t) == RegexParse(lower(t), t, Str(t))

\* str.strip() = ''
IsBlank(t) == \A k \in 1..Len(t) : t[k] \in Spaces

\* The oracle is not configured (no ANTHROPIC_API_KEY): CLAUDE_AVAILABLE is false.
CLAUDE_AVAILABLE == FALSE

\* parse_message(text); the branch under "if CLAUDE_AVAILABLE" is not taken.
parse_message(t) ==
    IF IsBlank(t) THEN [NewParseResult(Str(t)) EXCEPT !.error_message = "Empty message"]
    ELSE parse_message_with_regex(t)

-----------------------------------------------------------------------------
(* The oracle: services/claude_parser.py and its use by parse_message *)

\* What the request to the oracle comes back with: the client raises
\* (unreachable, API error), the text of the response is not JSON, it is JSON but
\* not an object, or it is the object the prompt asks for.
OracleRaises == [kind |-> "raises", data |-> <<>>]
OracleNotJson == [kind |-> "not_json", data |-> <<>>]
OracleNotObject == [kind |-> "not_object", data |-> <<>>]
OracleObject(data) == [kind |-> "object", data |-> data]

\* No ClaudeParsedTrade (None).
NoGuess == [some |-> FALSE]

\* data.get(key, default)
Get(data, key, default) == IF key \in DOMAIN data THEN data[key] ELSE default

\* parse_with_claude(message) on the response: json.JSONDecodeError and every
\* other exception inside the try block are caught and give None; an object
\* gives a ClaudeParsedTrade whatever keys it has.
parse_with_claude(response, message) ==
    IF response.kind = "object"
    THEN [some |-> TRUE,
          trade_type |-> Get(response.data, "trade_type", "BUY"),
          token_symbol |-> Get(response.data, "token_symbol", None),
          contract_address |-> Get(response.data, "contract_address", None),
          chain |-> Get(response.data, "chain", None),
          venue_type |-> Get(response.data, "venue_type", "spot"),
          exchange |-> Get(response.data, "exchange", None),
          leverage |-> Get(response.data, "leverage", None),
          position_type |-> Get(response.data, "position_type", None),
          amount_value |-> Get(response.data, "amount_value", NoneF),
          amount_currency |-> Get(response.data, "amount_currency", None),
          market_cap |-> Get(response.data, "market_cap", NoneF),
          notes_url |-> Get(response.data, "notes_url", None),
          dex_screener_url |-> Get(response.data, "dex_screener_url", None),
          raw_message |-> message,
          parse_confidence |-> "high"]
    ELSE NoGuess

convert_claude_to_parsed_trade(claude) ==
    [NewParsedTrade EXCEPT !.raw_message = claude.raw_message,
                           !.trade_type = claude.trade_type,
                           !.token_symbol = claude.token_symbol,
                           !.contract_address = claude.contract_address,
                           !.chain = claude.chain,
                           !.amount_spent = claude.amount_value,
                           !.spend_currency = claude.amount_currency,
                           !.market_cap = claude.market_cap,
                           !.notes_url = claude.notes_url,
                           !.dex_screener_url = claude.dex_screener_url,
                           !.is_perp = (claude.venue_type = "perp"),
                           !.exchange = claude.exchange,
                           !.position_type = claude.position_type,
                           !.parse_confidence = "high"]

\* parse_message after the call of the oracle: its guess, or the regex parser.
ParsedByOracle(t, claude_result) ==
    IF claude_result.some
    THEN Parsed(Str(t), <<convert_claude_to_parsed_trade(claude_result)>>)
    ELSE parse_message_with_regex(t)

\* parse_message(text) with the oracle configured (CLAUDE_AVAILABLE true).
parse_message_configured(t, response) ==
    IF IsBlank(t) THEN [NewParseResult(Str(t)) EXCEPT !.error_message = "Empty message"]
    ELSE ParsedByOracle(t, parse_with_claude(response, Str(t)))

-----------------------------------------------------------------------------
(* find_position_for_exit: services/position_tracker.py *)

\* addr[:6] and addr[-4:] of the contract addresses of the model.
Prefix6(addr) ==
    CASE addr = "0x20DD04c17AFD5c9a8b3f2cdacaa8Ee7907385BEF" -> "0x20DD"
      [] addr = "0x20dd04c17afd5c9a8b3f2cdacaa8ee7907385bef" -> "0x20dd"
      [] addr = "PEPE_hyperliquid" -> "PEPE_h"
      [] addr = "HYPE_hyperliquid" -> "HYPE_h"
      [] addr = "UNKNOWN_unknown" -> "UNKNOW"

Suffix4(addr) ==
    CASE addr = "0x20DD04c17AFD5c9a8b3f2cdacaa8Ee7907385BEF" -> "5BEF"
      [] addr = "0x20dd04c17afd5c9a8b3f2cdacaa8ee7907385bef" -> "5bef"
      [] addr = "PEPE_hyperliquid" -> "quid"
      [] addr = "HYPE_hyperliquid" -> "quid"
      [] addr = "UNKNOWN_unknown" -> "nown"

\* ORDER BY opened_at DESC: the latest opened row first.
RECURSIVE Descending(_)
Descending(S) == IF S = {} THEN <<>> ELSE <<MaxOf(S)>> \o Descending(S \ {MaxOf(S)})

\* One line of the list: f"{i}. {short_addr} ({chain}) - {remaining:,.0f} tokens".
CandidateLine(db, i, id) ==
    LET tk == db.tokens[db.positions[id].token_id]
    IN  <<i, ". ">>
        \o (IF StrTruthy(tk.contract_address)
            THEN <<Prefix6(tk.contract_address), "...", Suffix4(tk.contract_address)>>
            ELSE <<"N/A">>)
        \o <<" (", tk.chain, ") - ", db.positions[id].remaining_tokens, " tokens">>

\* Mutant: of several candidates the latest opened is selected.
find_position_for_exit_PicksLatest(db, symbol) ==
    LET ids == Descending(get_open_positions_by_symbol(db, symbol))
    IN  IF ids = <<>>
        THEN [position |-> 0, message |-> <<<<"No open position found for ", symbol>>>>]
        ELSE [position |-> ids[1], message |-> <<>>]

\* find_position_for_exit(symbol): the position's id (0 for None) and the lines of
\* the message; the empty message has no line.
find_position_for_exit(db, symbol) ==
    LET ids == Descending(get_open_positions_by_symbol(db, symbol))
    IN  IF ids = <<>>
        THEN [position |-> 0, message |-> <<<<"No open position found for ", symbol>>>>]
        ELSE IF Len(ids) = 1
        THEN [position |-> ids[1], message |-> <<>>]
        ELSE [position |-> 0,
              message |-> <<<<"Multiple open positions for ", symbol, ":">>>>
                          \o [i \in 1..Len(ids) |-> CandidateLine(db, i, ids[i])]
                          \o <<<<>>, <<"Please specify which position by including the contract address.">>>>]

-----------------------------------------------------------------------------
(* handle_message: handlers/message_handler.py *)

\* "Warning" in result.message: of the messages process_trade sets, the one that
\* starts with "Warning: Could not fetch price - ".
HasWarning(message) == message # <<>> /\ message[1] = "Warning: Could not fetch price - "

IsUsdReply(c) == c \in {"USD", "USDC", "USDT"}

\* format_trade_result(result): the lines of the reply, each the parts its
\* f-string joins; a number is the part the format specification is applied to.
SuccessLines(result) ==
    <<<<IF result.trade_type = "BUY" THEN "+" ELSE "-", " ", result.trade_type, " ",
        IF StrTruthy(result.token_symbol) THEN result.token_symbol ELSE "token">>>>
    \o (IF Truthy(result.amount_spent) /\ StrTruthy(result.spend_currency)
        THEN IF IsUsdReply(result.spend_currency)
             THEN <<<<"Spent: $", result.amount_spent, " ", result.spend_currency>>>>
             ELSE <<<<"Spent: ", result.amount_spent, " ", result.spend_currency>>>>
        ELSE <<>>)
    \o (IF Truthy(result.amount_tokens) THEN <<<<"Tokens: ", result.amount_tokens>>>>
        ELSE <<>>)
    \o (IF Truthy(result.price_usd) THEN <<<<"Price: $", result.price_usd>>>> ELSE <<>>)
    \o (IF Truthy(result.market_cap)
        THEN IF FLe(Num(1000000), result.market_cap)
             THEN <<<<"MCAP: $", FDiv(result.market_cap, Num(1000000)), "M">>>>
             ELSE <<<<"MCAP: $", FDiv(result.market_cap, Num(1000)), "K">>>>
        ELSE <<>>)
    \o (IF result.position_summary # <<>> THEN <<<<>>, result.position_summary>> ELSE <<>>)
    \o (IF HasWarning(result.message) THEN <<<<>>, result.message>> ELSE <<>>)

format_trade_result(result) ==
    IF result.success THEN SuccessLines(result)
    ELSE <<<<"Failed: ">> \o result.message>>

\* The reply sent before parsing, "Processing...".
Processing == <<<<"Processing...">>>>

\* str(e) of the exceptions the parser raises.
ExceptionText(raised) ==
    CASE raised = "NameError" -> "name 'parse_cex_spot_trade' is not defined"
      [] raised = "ValueError" -> "could not convert string to float: ''"

\* What handle_message leaves behind: the store and the record of the call, the
\* final text of the reply included (no reply at all for an empty text).
Handled(db, t, result, results, reply) ==
    [db |-> db,
     last |-> [op |-> "handle_message", text |-> t, success |-> result.success,
               error_message |-> result.error_message, raised |-> result.raised,
               parsed |-> result.trades, resps |-> <<>>, results |-> results,
               reply |-> reply]]

\* The loop over result.trades: process_trade for each candidate, in order.
RECURSIVE ProcessAll(_, _, _, _)
RECURSIVE ProcessRest(_, _, _, _)
ProcessAll(db, candidates, answers, results) ==
    IF candidates = <<>> THEN [db |-> db, results |-> results]
    ELSE ProcessRest(process_trade(db, Head(candidates), Head(answers).resp,
                                   Head(answers).presp),
                     candidates, answers, results)
ProcessRest(r, candidates, answers, results) ==
    ProcessAll(r.db, Tail(candidates), Tail(answers), Append(results, r.result))

\* "\n\n".join(responses): the replies of the candidates, in order.
Responses(results) == [k \in 1..Len(results) |-> format_trade_result(results[k])]

Processed(t, result, all) == Handled(all.db, t, result, all.results, Responses(all.results))

HandleParsed_ExceptionEscapes(db, t, result, answers) ==
    IF result.raised # None
    THEN Handled(db, t, result, <<>>, Processing)
    ELSE IF ~result.success
         THEN Handled(db, t, result, <<>>,
                      <<<<"Couldn't parse that message:">>, <<result.error_message>>, <<>>,
                        <<"Please include a contract address or DEX Screener link.">>>>)
         ELSE Processed(t, result, ProcessAll(db, result.trades, answers, <<>>))

HandleParsed_HidesParserError(db, t, result, answers) ==
    IF result.raised # None
    THEN Handled(db, t, result, <<>>, <<<<"Error: ", ExceptionText(result.raised)>>>>)
    ELSE IF ~result.success
         THEN Handled(db, t, result, <<>>,
                      <<<<"Couldn't parse that message:">>, <<>>,
                        <<"Please include a contract address or DEX Screener link.">>>>)
         ELSE Processed(t, result, ProcessAll(db, result.trades, answers, <<>>))

\* handle_message, the text parsed.
HandleParsed(db, t, result, answers) ==
    IF result.raised # None
    THEN Handled(db, t, result, <<>>, <<<<"Error: ", ExceptionText(result.raised)>>>>)
    ELSE IF ~result.success
         THEN Handled(db, t, result, <<>>,
                      <<<<"Couldn't parse that message:">>, <<result.error_message>>, <<>>,
                        <<"Please include a contract address or DEX Screener link.">>>>)
         ELSE Processed(t, result, ProcessAll(db, result.trades, answers, <<>>))

\* handle_message(update, context) for the text t; answers are the resolver's
\* answers to the lookups of the candidates, in order.
handle_message(db, t, result, answers) ==
    IF t = <<>> THEN Handled(db, t, NewParseResult(""), <<>>, <<>>)
    ELSE HandleParsed(db, t, result, answers)

-----------------------------------------------------------------------------
(* Specification Spec: trades processed one at a time by process_trade *)

db == Db(tokens, positions, trades)

Init ==
    /\ tokens = <<>>
    /\ positions = <<>>
    /\ trades = <<>>
    /\ last = [op |-> "init", text |-> <<>>, success |-> FALSE, error_message |-> None,
               raised |-> None, parsed |-> <<>>, resps |-> <<>>, results |-> <<>>,
               reply |-> <<>>]
    /\ calls = 0

ProcessTrade ==
    /\ calls < MaxTrades
    /\ calls' = calls + 1
    /\ \E sc \in Scenarios :
        \E r \in {process_trade(db, sc.parsed, sc.resp, sc.presp)} :
            /\ tokens' = r.db.tokens
            /\ positions' = r.db.positions
            /\ trades' = r.db.trades
            /\ last' = [op |-> "process_trade", text |-> <<>>, success |-> TRUE,
                        error_message |-> None, raised |-> None,
                        parsed |-> <<sc.parsed>>,
                        resps |-> <<[resp |-> sc.resp, presp |-> sc.presp]>>,
                        results |-> <<r.result>>, reply |-> <<>>]

Next == ProcessTrade

Spec == Init /\ [][Next]_vars

-----------------------------------------------------------------------------
(* Specification SpecMsg: messages handled one at a time by handle_message *)

\* Number of messages in one behaviour of SpecMsg.
MaxMessages == 3

SoldPepe == <<"S", "o", "l", "d", " ", "P", "E", "P", "E", " ", "f", "o", "r", " ", "$",
          "3", "0", "0", "0">>
HypeNoDollar == <<"1", "0", "0", "K", " ", "h", "y", "p", "e", " ", "3", "x", " ", "h", "y",
          "p", "e", "r", "l", "i", "q", "u", "i", "d">>
LongHype == <<"l", "o", "n", "g", " ", "H", "Y", "P", "E", " ", "o", "n", " ", "h", "y",
          "p", "e", "r", "l", "i", "q", "u", "i", "d", " ", "$", "1", "0", "0", "K">>
BoughtAddress == <<"B", "o", "u", "g", "h", "t", " ", "0", "x", "2", "0", "D", "D", "0", "4",
          "c", "1", "7", "A", "F", "D", "5", "c", "9", "a", "8", "b", "3", "f", "2",
          "c", "d", "a", "c", "a", "a", "8", "E", "e", "7", "9", "0", "7", "3", "8",
          "5", "B", "E", "F", " ", "f", "o", "r", " ", "$", "3", "0", "0">>
SoldAddress == <<"S", "o", "l", "d", " ", "0", "x", "2", "0", "D", "D", "0", "4", "c", "1",
          "7", "A", "F", "D", "5", "c", "9", "a", "8", "b", "3", "f", "2", "c", "d",
          "a", "c", "a", "a", "8", "E", "e", "7", "9", "0", "7", "3", "8", "5", "B",
          "E", "F", " ", "f", "o", "r", " ", "$", "1", "5", "0">>
BtcBinanceSpot == <<"B", "T", "C", " ", "b", "i", "n", "a", "n", "c", "e", " ", "s", "p", "o",
          "t">>
Blank == <<" ">>
Empty == <<>>

Messages ==
    {SoldPepe, HypeNoDollar, LongHype, BoughtAddress, SoldAddress, BtcBinanceSpot,
     Blank, Empty}

\* parse_message on the messages of the model.
ParseOf == [t \in Messages |-> parse_message(t)]

\* The resolver's answers to one lookup.
Answers ==
    {[resp |-> Found(p), presp |-> NotFound] : p \in Prices}
    \cup {[resp |-> NotFound, presp |-> NotFound], [resp |-> TimedOut, presp |-> NotFound],
          [resp |-> NotFound, presp |-> RateLimited]}

HandleMessage ==
    /\ calls < MaxMessages
    /\ calls' = calls + 1
    /\ \E t \in Messages :
        \E answers \in [1..Len(ParseOf[t].trades) -> Answers] :
            \E h \in {handle_message(db, t, ParseOf[t], answers)} :
                /\ tokens' = h.db.tokens
                /\ positions' = h.db.positions
                /\ trades' = h.db.trades
                /\ last' = [h.last EXCEPT !.resps = answers]

NextMsg == HandleMessage

SpecMsg == Init /\ [][NextMsg]_vars

-----------------------------------------------------------------------------
(* Specification SpecParse: one call of parse_message on one text *)

\* Number of words in a text of SpecParse.
MaxWords == 3

Words ==
    {<<"b", "o", "u", "g", "h", "t">>, <<"s", "o", "l", "d">>, <<"t", "h", "e", "n">>, <<"B", "T", "C">>, <<"b", "i", "n", "a", "n", "c", "e">>, <<"s", "p", "o", "t">>, <<"$", ",">>}

WordSeqs == UNION {[1..n -> Words] : n \in 1..MaxWords}

\* " ".join(words)
RECURSIVE Join(_)
Join(ws) == IF Len(ws) = 1 THEN ws[1] ELSE ws[1] \o <<" ">> \o Join(Tail(ws))

\* A well-formed answer of the oracle.
HypeGuess ==
    [trade_type |-> "BUY", token_symbol |-> "HYPE", contract_address |-> None,
     chain |-> None, venue_type |-> "perp", exchange |-> "hyperliquid",
     leverage |-> "3x", position_type |-> "LONG", amount_value |-> Num(100000),
     amount_currency |-> "USD", market_cap |-> NoneF, notes_url |-> None,
     dex_screener_url |-> None]

\* An object with none of the requested keys, such as {"error": "not a trade"}.
NoTradeObject == [k \in {"error"} |-> "not a trade"]

NotConfigured == [kind |-> "not_configured", data |-> <<>>]
OracleFailures == {OracleRaises, OracleNotJson, OracleNotObject}
Oracles ==
    {NotConfigured, OracleObject(HypeGuess), OracleObject(NoTradeObject)}
    \cup OracleFailures

\* parse_message(text) under the configuration and the oracle's answer.
ParseUnder(ws, oracle) ==
    IF oracle.kind = "not_configured" THEN parse_message(Join(ws))
    ELSE parse_message_configured(Join(ws), oracle)

InitParse ==
    /\ tokens = <<>>
    /\ positions = <<>>
    /\ trades = <<>>
    /\ calls = 0
    /\ \E ws \in WordSeqs, oracle \in Oracles :
          last = [op |-> "text", words |-> ws, oracle |-> oracle]

ParseMessage ==
    /\ last.op = "text"
    /\ \E r \in {ParseUnder(last.words, last.oracle)} :
          last' = [op |-> "parse_message", words |-> last.words, oracle |-> last.oracle,
                   text |-> Join(last.words), success |-> r.success,
                   error_message |-> r.error_message, raised |-> r.raised,
                   parsed |-> r.trades]
    /\ UNCHANGED <<tokens, positions, trades, calls>>

NextParse == ParseMessage

SpecParse == InitParse /\ [][NextParse]_vars

-----------------------------------------------------------------------------
(* Specification SpecReply: handle_message in two steps, the "Processing..."  *)
(* reply and the edit that replaces it; the handler runs to completion.      *)

\* update.message.reply_text("Processing..."): the handler has started on t.
\* What it will do is a function of the text, the store and the resolver's
\* answers; no other handler runs before it is done, so it is fixed here.
ReceiveMessage ==
    /\ last.op # "processing"
    /\ calls < MaxMessages
    /\ calls' = calls + 1
    /\ \E t \in Messages \ {Empty} :
        \E answers \in [1..Len(ParseOf[t].trades) -> Answers] :
            \E h \in {handle_message(db, t, ParseOf[t], answers)} :
                last' = [op |-> "processing", text |-> t, raised |-> None,
                         reply |-> Processing, previous |-> last.raised,
                         resps |-> answers, outcome |-> h]
    /\ UNCHANGED <<tokens, positions, trades>>

\* "if not text: return": no reply, nothing handled.
IgnoreMessage ==
    /\ last.op # "processing"
    /\ calls < MaxMessages
    /\ calls' = calls + 1
    /\ last' = [op |-> "ignored", text |-> Empty, raised |-> None, reply |-> <<>>,
                previous |-> last.raised]
    /\ UNCHANGED <<tokens, positions, trades>>

\* The try block and its except clause, ending in one loading_msg.edit_text(...).
FinishMessage ==
    /\ last.op = "processing"
    /\ calls' = calls
    /\ tokens' = last.outcome.db.tokens
    /\ positions' = last.outcome.db.positions
    /\ trades' = last.outcome.db.trades
    /\ last' = [op |-> "handle_message", text |-> last.text,
                raised |-> last.outcome.last.raised, reply |-> last.outcome.last.reply,
                previous |-> last.previous, success |-> last.outcome.last.success,
                error_message |-> last.outcome.last.error_message,
                parsed |-> last.outcome.last.parsed, resps |-> last.resps,
                results |-> last.outcome.last.results]

NextReply == ReceiveMessage \/ IgnoreMessage \/ FinishMessage

\* A handler that has sent "Processing..." goes on to its edit_text: its awaits
\* are network calls with a timeout.
SpecReply == Init /\ [][NextReply]_vars /\ WF_vars(FinishMessage)

-----------------------------------------------------------------------------
(* Specification SpecExit: trades recorded by process_trade, and lookups   *)
(* of the position to exit by find_position_for_exit                      *)

\* Buys and sells of the spot token PEPE and of perps with the tickers PEPE and HYPE.
ExitScenarios ==
    {Scenario(SpotTrade(ty, a, "USD"), Found(Rat(1, 10)), NotFound) :
        ty \in TradeTypes, a \in {Num(100), Num(300)}}
    \cup {Scenario([PerpTrade(ty, Num(100), "USD") EXCEPT !.token_symbol = s],
                   NotFound, NotFound) : ty \in TradeTypes, s \in {"PEPE", "HYPE"}}

ExitSymbols == {"PEPE", "pepe", "HYPE", "DOGE"}

RecordTrade ==
    /\ calls < MaxTrades
    /\ calls' = calls + 1
    /\ \E sc \in ExitScenarios :
        \E r \in {process_trade(db, sc.parsed, sc.resp, sc.presp)} :
            /\ tokens' = r.db.tokens
            /\ positions' = r.db.positions
            /\ trades' = r.db.trades
            /\ last' = [op |-> "process_trade", symbol |-> None, position |-> 0,
                        message |-> <<>>]

FindPositionForExit ==
    /\ \E symbol \in ExitSymbols :
        \E r \in {find_position_for_exit(db, symbol)} :
            last' = [op |-> "find_position_for_exit", symbol |-> symbol,
                     position |-> r.position, message |-> r.message]
    /\ UNCHANGED <<tokens, positions, trades, calls>>

NextExit == RecordTrade \/ FindPositionForExit

SpecExit == Init /\ [][NextExit]_vars

-----------------------------------------------------------------------------
(* Specification SpecDetect: one call of detect_trade_type on one text *)

\* Keywords of both directions, in lower and mixed case, the two words of "took
\* profit", and words that only contain a keyword.
DetectWords ==
    {<<"b", "o", "u", "g", "h", "t">>, <<"i", "n">>, <<"L", "o", "n", "g">>, <<"s", "o", "l", "d">>, <<"o", "u", "t">>, <<"t", "o", "o", "k">>, <<"p", "r", "o", "f", "i", "t">>, <<"t", "h", "e", "n">>, <<"b", "i", "n", "a", "n", "c", "e">>, <<"s", "o", "l", "d", "i", "e", "r">>}

DetectSeqs == UNION {[1..n -> DetectWords] : n \in 1..MaxWords}

InitDetect ==
    /\ tokens = <<>>
    /\ positions = <<>>
    /\ trades = <<>>
    /\ calls = 0
    /\ \E ws \in DetectSeqs : last = [op |-> "text", words |-> ws]

DetectTradeType ==
    /\ last.op = "text"
    /\ last' = [op |-> "detect_trade_type", words |-> last.words,
                trade_type |-> detect_trade_type(lower(Join(last.words)))]
    /\ UNCHANGED <<tokens, positions, trades, calls>>

NextDetect == DetectTradeType

SpecDetect == InitDetect /\ [][NextDetect]_vars

-----------------------------------------------------------------------------
(* Specification SpecAddr: one call of parse_message_with_regex on one text *)
(* made of addresses, links and chain keywords                              *)

\* Address1 as written, in lower case, in a DEX Screener link, and a
\* Solana-shaped address.
Address1Chars ==
    <<"0", "x", "2", "0", "D", "D", "0", "4", "c", "1", "7", "A", "F", "D", "5",
          "c", "9", "a", "8", "b", "3", "f", "2", "c", "d", "a", "c", "a", "a", "8",
          "E", "e", "7", "9", "0", "7", "3", "8", "5", "B", "E", "F">>
Address1Lower == lower(Address1Chars)
Address1Link == <<"d", "e", "x", "s", "c", "r", "e", "e", "n", "e", "r", ".", "c", "o", "m",
          "/", "b", "a", "s", "e", "/">> \o Address1Chars
SolanaAddress ==
    <<"7", "G", "C", "i", "h", "g", "D", "B", "8", "f", "e", "6", "K", "N", "j",
          "n", "2", "M", "Y", "t", "k", "z", "Z", "c", "R", "j", "Q", "y", "3", "t",
          "9", "G", "H", "d", "C", "8", "u", "H", "Y", "m", "W", "2", "h", "r">>

AddressWords ==
    {<<"b", "o", "u", "g", "h", "t">>, Address1Chars, Address1Lower, Address1Link, SolanaAddress,
     <<"e", "t", "h", "e", "r", "e", "u", "m">>, <<"s", "o", "l", "a", "n", "a">>}

AddressSeqs == UNION {[1..n -> AddressWords] : n \in 1..MaxWords}

InitAddr ==
    /\ tokens = <<>>
    /\ positions = <<>>
    /\ trades = <<>>
    /\ calls = 0
    /\ \E ws \in AddressSeqs : last = [op |-> "text", words |-> ws]

\* What parse_message_with_regex finds and returns for the text t.
AddressesParsed(ws, t, addresses, r) ==
    [op |-> "parse_message_with_regex", words |-> ws, text |-> t,
     addresses |-> addresses, success |-> r.success,
     error_message |-> r.error_message, raised |-> r.raised, parsed |-> r.trades]

ParseAddresses ==
    /\ last.op = "text"
    /\ \E t \in {Join(last.words)} :
        last' = AddressesParsed(last.words, t, find_all_addresses(lower(t), t),
                                parse_message_with_regex(t))
    /\ UNCHANGED <<tokens, positions, trades, calls>>

NextAddr == ParseAddresses

SpecAddr == InitAddr /\ [][NextAddr]_vars

-----------------------------------------------------------------------------
(* Specification SpecInfo: one call of get_token_info on the listings the   *)
(* search returned                                                          *)

\* Number of listings in one answer of the search.
MaxListings == 3

ListingChains == {"solana", "base", "ethereum", "arbitrum"}
Liquidities == {NoneF, Num(1000), Num(5000)}
Listings == {Listing(c, Rat(1, 10), l) : c \in ListingChains, l \in Liquidities}
ListingSeqs == UNION {[1..n -> Listings] : n \in 1..MaxListings}

\* No hint, two chains with listings, a chain never listed.
ChainHints == {None, "base", "arbitrum", "bsc"}

InitInfo ==
    /\ tokens = <<>>
    /\ positions = <<>>
    /\ trades = <<>>
    /\ calls = 0
    /\ \E pairs \in ListingSeqs, chain \in ChainHints :
            last = [op |-> "search_token", pairs |-> pairs, chain |-> chain]

GetTokenInfo ==
    /\ last.op = "search_token"
    /\ last' = [op |-> "get_token_info", pairs |-> last.pairs, chain |-> last.chain,
                info |-> get_token_info(last.pairs, Address1, last.chain)]
    /\ UNCHANGED <<tokens, positions, trades, calls>>

NextInfo == GetTokenInfo

SpecInfo == InitInfo /\ [][NextInfo]_vars

-----------------------------------------------------------------------------
(* Specification SpecToken: spot trades of one address with one parsed     *)
(* chain, the resolver answering in every way it can                       *)

\* The resolver lists Address1 on ethereum only.
FoundElsewhere ==
    [kind |-> "ok", pairs |-> <<Listing("ethereum", Rat(1, 10), Num(5000))>>, text |-> ""]

\* Address1 parsed with chain base; the resolver finds it on base, finds it on
\* another chain, does not find it, or fails.
TokenScenarios ==
    {Scenario(SpotTrade(ty, Num(100), "USD"), resp, NotFound) :
        ty \in TradeTypes, resp \in {Found(Rat(1, 10)), FoundElsewhere, NotFound, TimedOut}}

ProcessSpotTrade ==
    /\ calls < MaxTrades
    /\ calls' = calls + 1
    /\ \E sc \in TokenScenarios :
        \E r \in {process_trade(db, sc.parsed, sc.resp, sc.presp)} :
            /\ tokens' = r.db.tokens
            /\ positions' = r.db.positions
            /\ trades' = r.db.trades
            /\ last' = [op |-> "process_trade", text |-> <<>>, success |-> TRUE,
                        error_message |-> None, raised |-> None,
                        parsed |-> <<sc.parsed>>,
                        resps |-> <<[resp |-> sc.resp, presp |-> sc.presp]>>,
                        results |-> <<r.result>>, reply |-> <<>>]

NextToken == ProcessSpotTrade

SpecToken == Init /\ [][NextToken]_vars

-----------------------------------------------------------------------------
(* Specification SpecFloat: priced trades applied in floating point to one *)
(* position by update_position_from_trade                                  *)

\* Number of trades applied in one behaviour of SpecFloat.
MaxApplied == 4

\* Token amounts that are floats of SignificandBits bits, bought at $1 a token
\* and sold at $1 or $2 a token.
FloatAmounts == {Rat(1, 2), Num(5), Num(6), Num(7), Num(8)}
FloatTrades ==
    {[trade_type |-> "BUY", amount_tokens |-> t, total_value_usd |-> t] : t \in FloatAmounts}
    \cup {[trade_type |-> "SELL", amount_tokens |-> t, total_value_usd |-> FMul(Num(k), t)] :
            t \in FloatAmounts, k \in {1, 2}}

\* A token and the position create_position has just opened for it.
InitFloat ==
    /\ tokens = <<[contract_address |-> Address1, chain |-> "base", symbol |-> "PEPE",
                   name |-> "Unknown Token"]>>
    /\ positions = <<NewPosition(1)>>
    /\ trades = <<>>
    /\ last = [op |-> "create_position"]
    /\ calls = 0

\* Steps 5 and 6 of process_trade for a priced trade of the token: the trade row,
\* then the update of the open position.
ApplyTrade ==
    /\ calls < MaxApplied
    /\ IsOpen(positions[1])
    /\ calls' = calls + 1
    /\ \E tr \in FloatTrades :
        \E r \in {update_position_from_trade_rounded(
                     create_trade(db, [token_id |-> 1, position_id |-> 1, trade_type |-> tr.trade_type, amount_tokens |-> tr.amount_tokens, total_value_usd |-> tr.total_value_usd]).db,
                     1, positions[1], tr.trade_type, tr.amount_tokens,
                     tr.total_value_usd)} :
            /\ tokens' = r.tokens
            /\ positions' = r.positions
            /\ trades' = r.trades
    /\ last' = [op |-> "update_position_from_trade"]

NextFloat == ApplyTrade

SpecFloat == InitFloat /\ [][NextFloat]_vars

-----------------------------------------------------------------------------
(* Specification SpecUsd: one call of extract_usd_amounts on one text made *)
(* of dollar amounts and plain words                                       *)

\* Dollar amounts without and with a suffix, and words that begin with b, m, s
\* and o.
UsdWords == {<<"$", "1">>, <<"$", "2", "K">>, <<"b", "o", "u", "g", "h", "t">>, <<"m", "o", "r", "e">>, <<"s", "o", "l", "d">>, <<"o", "f">>}

UsdSeqs == UNION {[1..n -> UsdWords] : n \in 1..MaxWords}

InitUsd ==
    /\ tokens = <<>>
    /\ positions = <<>>
    /\ trades = <<>>
    /\ calls = 0
    /\ \E ws \in UsdSeqs : last = [op |-> "text", words |-> ws]

ExtractUsdAmounts ==
    /\ last.op = "text"
    /\ \E t \in {Join(last.words)} :
        last' = [op |-> "extract_usd_amounts", words |-> last.words, text |-> t,
                 raised |-> extract_usd_amounts_raises(lower(t), t),
                 amounts |-> extract_usd_amounts(lower(t), t)]
    /\ UNCHANGED <<tokens, positions, trades, calls>>

NextUsd == ExtractUsdAmounts

SpecUsd == InitUsd /\ [][NextUsd]_vars

-----------------------------------------------------------------------------
(* Specification SpecConc: several handle_message coroutines in flight on  *)
(* one event loop.  A coroutine gives up control only at an await:         *)
(* update.message.reply_text (line 53) and loading_msg.edit_text (lines    *)
(* 61, 75 and 79).  parse_message and the loop of process_trade calls run  *)
(* between two awaits without interruption.                                *)

\* Number of handle_message coroutines in one behaviour of SpecConc.
MaxHandlers == 2

Buy100 == Scenario(SpotTrade("BUY", Num(100), "USD"), Found(Rat(1, 10)), NotFound)
Buy300 == Scenario(SpotTrade("BUY", Num(300), "USD"), Found(Rat(1, 10)), NotFound)
Sell100 == Scenario(SpotTrade("SELL", Num(100), "USD"), Found(Rat(1, 10)), NotFound)

\* The trades of a parsed message with the resolver's answers, in order.
ConcMessages ==
    {<<Buy100>>, <<Buy300>>, <<Sell100>>, <<Buy300, Sell100>>, <<Sell100, Buy100>>}

Handlers == 1..MaxHandlers

Idle == [pc |-> "idle", message |-> <<>>, ticket |-> 0, seen |-> Db(<<>>, <<>>, <<>>)]

InitConc ==
    /\ tokens = <<>>
    /\ positions = <<>>
    /\ trades = <<>>
    /\ calls = 0
    /\ last = [op |-> "init", handlers |-> [h \in Handlers |-> Idle], order |-> <<>>]

\* The store process_trade reads: the store as it is when process_trade runs,
\* not as it was when the coroutine was suspended.
StoreRead_BeforeSuspension(now, seen) == seen
StoreRead(now, seen) == now

\* handle_message up to its first await: the text is read and reply_text is
\* called.  ticket is the order of arrival, seen the store at the suspension.
ReceiveConc ==
    \E h \in Handlers, m \in ConcMessages :
        /\ last.handlers[h].pc = "idle"
        /\ calls' = calls + 1
        /\ last' = [op |-> "reply_text",
                    handlers |-> [last.handlers EXCEPT
                                    ![h] = [pc |-> "reply_text", message |-> m,
                                            ticket |-> calls + 1, seen |-> db]],
                    order |-> last.order]
        /\ UNCHANGED <<tokens, positions, trades>>

\* From the return of reply_text to the next await: the loop over result.trades
\* with process_trade for each, then edit_text is called.
ProcessConc ==
    \E h \in Handlers :
        /\ last.handlers[h].pc = "reply_text"
        /\ \E m \in {last.handlers[h].message} :
            \E r \in {ProcessAll(StoreRead(db, last.handlers[h].seen),
                                 [k \in 1..Len(m) |-> m[k].parsed], m, <<>>)} :
                /\ tokens' = r.db.tokens
                /\ positions' = r.db.positions
                /\ trades' = r.db.trades
                /\ last' = [op |-> "edit_text",
                            handlers |-> [last.handlers EXCEPT ![h].pc = "edit_text"],
                            order |-> Append(last.order, m)]
        /\ calls' = calls

\* edit_text returns and the coroutine ends.
CompleteConc ==
    \E h \in Handlers :
        /\ last.handlers[h].pc = "edit_text"
        /\ last' = [op |-> "done",
                    handlers |-> [last.handlers EXCEPT ![h].pc = "done"],
                    order |-> last.order]
        /\ UNCHANGED <<tokens, positions, trades, calls>>

NextConc == ReceiveConc \/ ProcessConc \/ CompleteConc

SpecConc == InitConc /\ [][NextConc]_vars

-----------------------------------------------------------------------------
(* Properties of the position accounting engine, checked under Spec *)

\* A trade row that update_position_from_trade was called for.
Applied(row) == Truthy(row.amount_tokens) /\ Truthy(row.total_value_usd)
AppliedTo(i) == {j \in 1..Len(trades) : trades[j].position_id = i /\ Applied(trades[j])}
SellApplied(i) == \E j \in AppliedTo(i) : trades[j].trade_type # "BUY"
LastIsBuy(i) == AppliedTo(i) # {} /\ trades[MaxOf(AppliedTo(i))].trade_type = "BUY"
LastIsSell(i) == AppliedTo(i) # {} /\ trades[MaxOf(AppliedTo(i))].trade_type # "BUY"
Positive(a) == FLt(Zero, a)

\* C2 as stated: a position is PARTIAL whenever a sell has been applied and
\* remaining_tokens > 0, CLOSED whenever sells brought remaining_tokens to 0, and
\* OPEN only while no sell has been applied to it.
C2_StatusAgreesWithTotals ==
    \A i \in 1..Len(positions) :
        LET p == positions[i]
        IN  /\ (SellApplied(i) /\ Positive(p.remaining_tokens)) => p.status = "PARTIAL"
            /\ (SellApplied(i) /\ p.remaining_tokens = Zero) => p.status = "CLOSED"
            /\ p.status = "OPEN" => ~SellApplied(i)

\* C2 amended: a position is PARTIAL whenever the last trade applied to it is a
\* SELL that left remaining_tokens > 0, CLOSED whenever sells brought
\* remaining_tokens to 0, and OPEN exactly while no sell has been applied to it or
\* the last trade applied to it is a BUY (a BUY sets the status back to OPEN).
C2_StatusFollowsLastAppliedTrade ==
    \A i \in 1..Len(positions) :
        LET p == positions[i]
        IN  /\ (LastIsSell(i) /\ Positive(p.remaining_tokens)) => p.status = "PARTIAL"
            /\ (SellApplied(i) /\ p.remaining_tokens = Zero) => p.status = "CLOSED"
            /\ p.status = "OPEN" <=> (~SellApplied(i) \/ LastIsBuy(i))

\* A position bought into again after a partial sell.
C2_Witness ==
    \E i \in 1..Len(positions) :
        SellApplied(i) /\ LastIsBuy(i) /\ Positive(positions[i].remaining_tokens)

\* C3: every token has at most one position whose status is OPEN or PARTIAL.
OpenPositionsOf(t) == {i \in 1..Len(positions) : positions[i].token_id = t /\ IsOpen(positions[i])}
C3_AtMostOneOpenPositionPerToken ==
    \A t \in 1..Len(tokens) : Cardinality(OpenPositionsOf(t)) <= 1

\* A token whose position was closed and that holds a new open one.
C3_Witness ==
    \E t \in 1..Len(tokens) :
        /\ Cardinality(OpenPositionsOf(t)) = 1
        /\ \E i \in 1..Len(positions) :
              positions[i].token_id = t /\ positions[i].status = "CLOSED"

Recorded == Len(trades') = Len(trades) + 1
NewRow == trades'[Len(trades')]
Before ==
    IF NewRow.position_id <= Len(positions) THEN positions[NewRow.position_id]
    ELSE NewPosition(NewRow.token_id)
After == positions'[NewRow.position_id]

\* C5: a SELL of t tokens for value v applied to a position with total_bought B and
\* total_cost_usd C adds v - t*(C/B) to realized_pnl_usd when B > 0 and leaves it
\* unchanged when B = 0, adds t to total_sold and v to total_proceeds_usd.
C5_SellAddsPnlAtAverageCost ==
    [][(Recorded /\ Applied(NewRow) /\ NewRow.trade_type = "SELL") =>
        LET t == NewRow.amount_tokens
            v == NewRow.total_value_usd
            B == Before.total_bought
            C == Before.total_cost_usd
        IN  /\ After.realized_pnl_usd =
                  IF Positive(B)
                  THEN FAdd(Before.realized_pnl_usd, FSub(v, FMul(t, FDiv(C, B))))
                  ELSE Before.realized_pnl_usd
            /\ After.total_sold = FAdd(Before.total_sold, t)
            /\ After.total_proceeds_usd = FAdd(Before.total_proceeds_usd, v)]_vars

\* The example: 1000 tokens for $100, 1000 tokens for $300, then 500 tokens sold
\* for $150 give a realized PnL of $50.
C5_Witness ==
    /\ Len(trades) = 3
    /\ trades[1].trade_type = "BUY" /\ trades[1].amount_tokens = Num(1000)
    /\ trades[1].total_value_usd = Num(100)
    /\ trades[2].trade_type = "BUY" /\ trades[2].amount_tokens = Num(1000)
    /\ trades[2].total_value_usd = Num(300)
    /\ trades[3].trade_type = "SELL" /\ trades[3].amount_tokens = Num(500)
    /\ trades[3].total_value_usd = Num(150)
    /\ \A j \in 1..3 : trades[j].position_id = 1
    /\ positions[1].realized_pnl_usd = Num(50)

\* The rows of the BUYs and of the SELLs applied to position i, by trade id.
BuysOf(i) == {j \in AppliedTo(i) : trades[j].trade_type = "BUY"}
SellsOf(i) == AppliedTo(i) \ BuysOf(i)
BuysPrecedeSells(i) == \A b \in BuysOf(i), x \in SellsOf(i) : b < x

\* The sequence of the elements of a set of trade ids, ascending.
RECURSIVE Ascending(_)
Ascending(S) == IF S = {} THEN <<>> ELSE <<MinOf(S)>> \o Ascending(S \ {MinOf(S)})

\* Every order of a set of trade ids.
Orders(S) ==
    {f \in [1..Cardinality(S) -> S] : \A a, b \in 1..Cardinality(S) : f[a] = f[b] => a = b}

\* The position after update_position_from_trade is called for the rows ids, in order.
RECURSIVE Replay(_, _)
Replay(p, ids) ==
    IF ids = <<>> THEN p
    ELSE LET row == trades[Head(ids)]
             f == IF row.trade_type = "BUY"
                  THEN BuyFields(p, row.amount_tokens, row.total_value_usd)
                  ELSE SellFields(p, row.amount_tokens, row.total_value_usd)
         IN  Replay([k \in DOMAIN p |-> IF k \in DOMAIN f THEN f[k] ELSE p[k]], Tail(ids))

C7_RemainingNeverNegative ==
    [][/\ (Recorded /\ NewRow.trade_type = "BUY") =>
            /\ FLe(Before.remaining_tokens, After.remaining_tokens)
            /\ \A j \in 1..Len(positions) :
                  FLe(positions[j].remaining_tokens, positions'[j].remaining_tokens)
       /\ (Recorded /\ Applied(NewRow) /\ NewRow.trade_type = "SELL"
             /\ NewRow.amount_tokens = Before.remaining_tokens) =>
            After.status = "CLOSED" /\ After.remaining_tokens = Zero
       /\ \A j \in 1..Len(positions') : FLe(Zero, positions'[j].remaining_tokens)]_vars

\* One position sold out exactly, another one sold beyond what remained.
C7_Witness ==
    /\ \E i \in 1..Len(positions) :
          /\ positions[i].status = "CLOSED" /\ Positive(positions[i].total_bought)
          /\ positions[i].total_sold = positions[i].total_bought
    /\ \E i \in 1..Len(positions) :
          FLt(positions[i].total_bought, positions[i].total_sold)

\* The trade process_trade was called with, its direction defaulted to BUY, and the
\* resolver's answers to that call.
LastParsed == [last'.parsed[1] EXCEPT !.trade_type = IF StrTruthy(@) THEN @ ELSE "BUY"]
LastResp == last'.resps[1]
IsPerpOrCex(parsed) ==
    parsed.is_perp \/ (StrTruthy(parsed.exchange) /\ ~StrTruthy(parsed.contract_address))

\* process_trade records the trade but cannot determine its token amount or USD value:
\* no amount was parsed, the spend currency is not a USD stablecoin, or (spot) the
\* resolver gave no price.
Undetermined(parsed, r) ==
    /\ IsPerpOrCex(parsed) \/ StrTruthy(parsed.contract_address)
    /\ \/ ~Truthy(parsed.amount_spent)
       \/ IF IsPerpOrCex(parsed) THEN ~IsUsdPerp(parsed.spend_currency)
          ELSE \/ ~IsUsdStable(parsed.spend_currency)
               \/ ~Truthy(LookupToken(parsed, r.resp, r.presp).info.price_usd)

\* C8: when process_trade cannot determine the token amount or the USD value it
\* still creates the trade record, with amount_tokens null, and changes no existing
\* position; a position the call opened has total_cost_usd = 0, remaining_tokens = 0
\* and status OPEN.
C8_UndeterminedTradeLeavesPosition ==
    [][(calls' = calls + 1 /\ Undetermined(LastParsed, LastResp)) =>
        /\ Recorded
        /\ IsNoneF(NewRow.amount_tokens)
        /\ NewRow.trade_type = LastParsed.trade_type
        /\ last'.results[1].success /\ last'.results[1].trade_id = Len(trades')
        /\ \A j \in 1..Len(positions) : positions'[j] = positions[j]
        /\ Len(positions') <= Len(positions) + 1
        /\ Len(positions') = Len(positions) + 1 =>
              /\ NewRow.position_id = Len(positions')
              /\ After.total_cost_usd = Zero
              /\ After.remaining_tokens = Zero
              /\ After.status = "OPEN"]_vars

\* An unpriced BUY went to a position that holds tokens, after another unpriced
\* BUY had opened a position that still has no cost.
C8_Witness ==
    /\ Len(trades) >= 2
    /\ \E j \in 1..Len(trades) :
          /\ trades[j].trade_type = "BUY" /\ IsNoneF(trades[j].amount_tokens)
          /\ AppliedTo(trades[j].position_id) = {}
          /\ positions[trades[j].position_id].total_cost_usd = Zero
          /\ positions[trades[j].position_id].status = "OPEN"
    /\ LET row == trades[Len(trades)]
       IN  /\ IsNoneF(row.amount_tokens) /\ row.trade_type = "BUY"
           /\ Positive(positions[row.position_id].total_bought)

-----------------------------------------------------------------------------
(* Properties of message handling, checked under SpecMsg *)

HandledText(t) == last'.op = "handle_message" /\ last'.text = t
PepePositions == get_open_positions_by_symbol(db, "PEPE")
ThePepePosition == CHOOSE i \in PepePositions : TRUE
RowsAdded == Len(trades') - Len(trades)
AddedRow == trades'[Len(trades')]
OldRowsKept == SubSeq(trades', 1, Len(trades)) = trades

\* C1: with exactly one OPEN/PARTIAL position whose token symbol is PEPE, handling
\* "Sold PEPE for $3000" creates one SELL trade record that references that
\* position and changes the position's realized PnL by the proceeds less the
\* tokens sold at the position's average cost.
C1_SoldPepeSellsTheOpenPosition ==
    [][(HandledText(SoldPepe) /\ Cardinality(PepePositions) = 1) =>
        /\ RowsAdded = 1
        /\ AddedRow.trade_type = "SELL"
        /\ AddedRow.position_id = ThePepePosition
        /\ positions'[ThePepePosition].realized_pnl_usd =
              NewPnl(positions[ThePepePosition], OrZero(AddedRow.amount_tokens),
                     OrZero(AddedRow.total_value_usd))]_vars

\* C9: handling a message that parses successfully adds exactly one trade record
\* for each candidate of the parse, and every trade record that existed before is
\* still there, unchanged.
C9_OneNewRecordPerCandidate ==
    [][(last'.op = "handle_message" /\ last'.success) =>
        /\ RowsAdded = Len(last'.parsed)
        /\ OldRowsKept]_vars

\* C10: "100K hype 3x hyperliquid" parses successfully to exactly one candidate,
\* a perp trade with token_symbol HYPE, exchange hyperliquid, position_type LONG,
\* trade_type BUY, amount_spent 100000 and spend_currency USD.
C10_HypeParsesAsPerp ==
    (last.op = "handle_message" /\ last.text = HypeNoDollar) =>
        /\ last.success
        /\ Len(last.parsed) = 1
        /\ last.parsed[1].is_perp
        /\ last.parsed[1].token_symbol = "HYPE"
        /\ last.parsed[1].exchange = "hyperliquid"
        /\ last.parsed[1].position_type = "LONG"
        /\ last.parsed[1].trade_type = "BUY"
        /\ last.parsed[1].amount_spent = Num(100000)
        /\ last.parsed[1].spend_currency = "USD"

-----------------------------------------------------------------------------
(* Properties of parse_message, checked under SpecParse *)

ParsedText(ws) == last.op = "parse_message" /\ last.words = ws
Unconfigured == last.oracle.kind = "not_configured"

\* C11: with the oracle not configured, "BTC binance spot" parses successfully to
\* exactly one candidate, identified by symbol BTC and exchange binance, with no
\* contract address.
C11_CexSpotParses ==
    (ParsedText(<<<<"B", "T", "C">>, <<"b", "i", "n", "a", "n", "c", "e">>, <<"s", "p", "o", "t">>>>) /\ Unconfigured) =>
        /\ last.success
        /\ Len(last.parsed) = 1
        /\ last.parsed[1].token_symbol = "BTC"
        /\ last.parsed[1].exchange = "binance"
        /\ last.parsed[1].contract_address = None

\* C12: the amount and market-cap extractors return a result for the text and do
\* not raise, whatever the text, a numeric part made only of commas included (the
\* direction, address, URL and venue extractors have no raising path).
C12_ExtractorsNeverRaise ==
    last.op = "parse_message" =>
        /\ ~extract_usd_amounts_raises(lower(last.text), last.text)
        /\ ~extract_crypto_amounts_raises(lower(last.text), last.text)
        /\ ~extract_market_cap_raises(lower(last.text), last.text)

ResultFields(r) ==
    [success |-> r.success, error_message |-> r.error_message, raised |-> r.raised,
     parsed |-> r.trades]
LastFields ==
    [success |-> last.success, error_message |-> last.error_message,
     raised |-> last.raised, parsed |-> last.parsed]

\* C13: when the oracle is configured and its call fails (the client raises, or
\* the response is malformed: not JSON, not an object, or an object that is not
\* the structured trade the prompt asks for), parse_message gives exactly what
\* parse_message_with_regex gives for the same text.
C13_AnyOracleFailureFallsBackToRegex ==
    (last.op = "parse_message" /\ last.oracle \in Oracles \ {NotConfigured, OracleObject(HypeGuess)}) =>
        LastFields = ResultFields(parse_message_with_regex(last.text))

\* The part of C13 that holds: when the client raises, the response is not JSON,
\* or it is JSON but not an object, parse_message gives exactly what
\* parse_message_with_regex gives for the same text: the same success flag, error
\* message, candidates and exception.
C13_CaughtFailureFallsBackToRegex ==
    (last.op = "parse_message" /\ last.oracle \in OracleFailures) =>
        LastFields = ResultFields(parse_message_with_regex(last.text))

\* A text the regex parser accepts, parsed after the oracle answered with text
\* that is not JSON.
C13_CaughtFailureReached ==
    /\ last.op = "parse_message"
    /\ last.oracle = OracleNotJson
    /\ last.words = <<<<"s", "o", "l", "d">>, <<"t", "h", "e", "n">>>>
    /\ last.success
    /\ Len(last.parsed) = 1

-----------------------------------------------------------------------------
(* Properties of handle_message and the resolver, checked under SpecMsg *)

\* The message handled had one spot candidate with a contract address.
SpotHandled ==
    /\ last'.op = "handle_message"
    /\ last'.success
    /\ Len(last'.parsed) = 1
    /\ ~last'.parsed[1].is_perp
    /\ StrTruthy(last'.parsed[1].contract_address)
NotFoundAnswer == [resp |-> NotFound, presp |-> NotFound]
ErrorAnswers ==
    {[resp |-> TimedOut, presp |-> NotFound], [resp |-> NotFound, presp |-> RateLimited]}

\* The reply shows a warning line.
ReplyWarns(reply) ==
    \E k \in 1..Len(reply) : \E j \in 1..Len(reply[k]) : HasWarning(reply[k][j])

\* C14: when the resolver answers not-found for a spot trade with a contract
\* address, one trade record is created with price_usd and amount_tokens null,
\* process_trade reports success, and the reply carries a warning.
C14_NotFoundRecordedWithWarning ==
    [][(SpotHandled /\ last'.resps[1] = NotFoundAnswer) =>
        /\ RowsAdded = 1
        /\ IsNoneF(AddedRow.price_usd)
        /\ IsNoneF(AddedRow.amount_tokens)
        /\ last'.results[1].success
        /\ ReplyWarns(last'.reply)]_vars

\* The part of C14 that holds: the trade is recorded with price_usd and
\* amount_tokens null and process_trade reports success.
C14_NotFoundRecorded ==
    [][(SpotHandled /\ last'.resps[1] = NotFoundAnswer) =>
        /\ RowsAdded = 1
        /\ IsNoneF(AddedRow.price_usd)
        /\ IsNoneF(AddedRow.amount_tokens)
        /\ last'.results[1].success]_vars

\* The resolver call that raised is the last one made for the trade.
NoCallAfterError ==
    Len(ResolverCalls(last'.parsed[1], last'.resps[1].resp)) =
        IF last'.resps[1].resp.kind = "error" THEN 1 ELSE 2

\* The token and the trade record exist, the price is null, and the position the
\* trade refers to has the totals it had (those of a new position if it is new).
RecordedWithoutPrice ==
    /\ RowsAdded = 1
    /\ tokens'[AddedRow.token_id].contract_address = last'.parsed[1].contract_address
    /\ IsNoneF(AddedRow.price_usd)
    /\ After = Before
    /\ last'.results[1].success

\* C15: when the resolver raises a service error during a spot trade, no further
\* resolver call is made for the trade, the token and the trade record are created
\* with null price, the position totals are unchanged, and process_trade returns
\* success with a warning text that the reply shows.
C15_ServiceErrorRecordedWithWarning ==
    [][(SpotHandled /\ last'.resps[1] \in ErrorAnswers) =>
        /\ NoCallAfterError
        /\ RecordedWithoutPrice
        /\ HasWarning(last'.results[1].message)
        /\ ReplyWarns(last'.reply)]_vars

\* The part of C15 that holds for every trade: no further call, the records
\* created without price, the totals unchanged, success.
C15_ServiceErrorRecorded ==
    [][(SpotHandled /\ last'.resps[1] \in ErrorAnswers) =>
        /\ NoCallAfterError
        /\ RecordedWithoutPrice]_vars

\* parse_message returned, with success = false.
ParseFailed ==
    /\ last'.op = "handle_message"
    /\ last'.text # <<>>
    /\ last'.raised = None
    /\ ~last'.success

\* C16: when parse_message returns success = false, handle_message creates no
\* token, position or trade record, and its reply has the parser's error message
\* as a line of its own.
C16_ParseFailureRecordsNothing ==
    [][ParseFailed =>
        /\ UNCHANGED <<tokens, positions, trades>>
        /\ last'.error_message # None
        /\ \E k \in 1..Len(last'.reply) : last'.reply[k] = <<last'.error_message>>]_vars

\* "100K hype 3x hyperliquid" rejected after a trade was recorded: the records
\* are still the ones of that trade.
C16_Witness ==
    /\ last.op = "handle_message"
    /\ last.text = HypeNoDollar
    /\ ~last.success
    /\ last.reply[2] =
         <<"No contract address found. Please include the contract address or DEX Screener link.">>
    /\ Len(tokens) = 1 /\ Len(positions) = 1 /\ Len(trades) = 1

-----------------------------------------------------------------------------
(* Property of the reply of handle_message, checked under SpecReply *)

\* The reply is one final text: the parse error, the trade results, or the text
\* of the exception.
FinalReply ==
    /\ last.op = "handle_message"
    /\ last.reply # <<>>
    /\ last.reply # Processing
    /\ IF last.raised # None
       THEN last.reply = <<<<"Error: ", ExceptionText(last.raised)>>>>
       ELSE IF ~last.success
            THEN last.reply[1] = <<"Couldn't parse that message:">>
            ELSE last.reply = Responses(last.results)

\* C17: every message with a non-empty text that got "Processing..." eventually
\* has that reply replaced by one final reply, and after a message whose parsing
\* or processing raised, the next message can be taken.
C17_EveryMessageAnswered ==
    /\ \A t \in Messages \ {Empty} :
          (last.op = "processing" /\ last.text = t) ~> (FinalReply /\ last.text = t)
    /\ []((last.op = "handle_message" /\ last.raised # None /\ calls < MaxMessages)
             => ENABLED ReceiveMessage)

\* A trade recorded from the message that followed one on which the parser raised.
C17_Witness ==
    /\ last.op = "handle_message"
    /\ last.previous = "NameError"
    /\ last.text = BoughtAddress
    /\ last.success
    /\ FinalReply
    /\ Len(trades) = 1

-----------------------------------------------------------------------------
(* Property of find_position_for_exit, checked under SpecExit *)

\* The OPEN/PARTIAL positions whose token carries the symbol, whatever the case.
Candidates(symbol) ==
    {i \in 1..Len(positions) :
        /\ positions[i].status \in {"OPEN", "PARTIAL"}
        /\ LowerStr(tokens[positions[i].token_id].symbol) = LowerStr(symbol)}

\* The message has one line for the candidate: its shortened address, its chain
\* and its remaining tokens.
Listed(message, i) ==
    \E k \in 2..Len(message) - 2 :
        /\ Len(message[k]) = 10
        /\ message[k][3] = Prefix6(tokens[positions[i].token_id].contract_address)
        /\ message[k][7] = tokens[positions[i].token_id].chain
        /\ message[k][9] = positions[i].remaining_tokens

\* C18: find_position_for_exit(symbol) returns no position and a "no open
\* position" message when no OPEN/PARTIAL position has the symbol, that position
\* and the empty message when exactly one has, no position and a message that lists
\* every candidate when several have; it changes no position and records no trade.
C18_ExitLookup ==
    /\ [](last.op = "find_position_for_exit" =>
            LET found == Candidates(last.symbol)
            IN  /\ found = {} =>
                    /\ last.position = 0
                    /\ last.message = <<<<"No open position found for ", last.symbol>>>>
                /\ Cardinality(found) = 1 =>
                    /\ last.position \in found
                    /\ last.message = <<>>
                /\ Cardinality(found) > 1 =>
                    /\ last.position = 0
                    /\ Len(last.message) = Cardinality(found) + 3
                    /\ \A i \in found : Listed(last.message, i))
    /\ [][last'.op = "find_position_for_exit" =>
            /\ positions' = positions
            /\ trades' = trades
            /\ tokens' = tokens]_vars

\* Two open positions carry the ticker PEPE, one of them partly sold, and the
\* lookup has listed both.
C18_Witness ==
    /\ last.op = "find_position_for_exit"
    /\ last.symbol = "pepe"
    /\ Cardinality(Candidates("pepe")) = 2
    /\ \E i \in Candidates("pepe") : positions[i].status = "PARTIAL"
    /\ last.position = 0
    /\ Len(last.message) = 5

-----------------------------------------------------------------------------
(* Property of detect_trade_type, checked under SpecDetect *)

\* The places of the words of ws that are BUY keywords, whatever their case.
BuyWordsIn(ws) == {k \in 1..Len(ws) : lower(ws[k]) \in BUY_KEYWORDS}

\* The places of the words of ws that are SELL keywords, or "took" before "profit".
SellWordsIn(ws) ==
    {k \in 1..Len(ws) :
        \/ lower(ws[k]) \in SELL_KEYWORDS
        \/ /\ k < Len(ws)
           /\ lower(ws[k]) = <<"t", "o", "o", "k">>
           /\ lower(ws[k + 1]) = <<"p", "r", "o", "f", "i", "t">>}

\* C19: detect_trade_type returns BUY when only BUY keywords occur in the text,
\* SELL when only SELL keywords occur, the direction of the keyword whose first
\* occurrence is the earliest when both occur, and None when neither occurs.
C19_EarliestKeywordWins ==
    last.op = "detect_trade_type" =>
        LET buys == BuyWordsIn(last.words)
            sells == SellWordsIn(last.words)
        IN  /\ (buys # {} /\ sells = {}) => last.trade_type = "BUY"
            /\ (sells # {} /\ buys = {}) => last.trade_type = "SELL"
            /\ (buys # {} /\ sells # {}) =>
                /\ (\E b \in buys : \A s \in sells : b < s) => last.trade_type = "BUY"
                /\ (\E s \in sells : \A b \in buys : s < b) => last.trade_type = "SELL"
            /\ (buys = {} /\ sells = {}) => last.trade_type = None

\* "bought then sold" has given BUY.
C19_Witness ==
    /\ last.op = "detect_trade_type"
    /\ last.words = <<<<"b", "o", "u", "g", "h", "t">>, <<"t", "h", "e", "n">>, <<"s", "o", "l", "d">>>>
    /\ last.trade_type = "BUY"

-----------------------------------------------------------------------------
(* Property of parse_message on texts without an address, checked under SpecParse *)

\* The text parsed is neither a perp trade nor a CEX spot trade and no address is
\* found in it.
NoAddressCase ==
    /\ last.op = "parse_message"
    /\ Unconfigured
    /\ ~is_perp_trade(lower(last.text), last.text)
    /\ extract_cex_spot_info(lower(last.text), last.text).symbol = None
    /\ find_all_addresses(lower(last.text), last.text) = <<>>

\* The direction is SELL exactly when the parse succeeded; a success has one
\* candidate with no address and "contract_address" among its missing fields, a
\* failure has no candidate and an error message.
ExitOrError ==
    /\ last.success <=> (detect_trade_type(lower(last.text)) = "SELL")
    /\ last.success =>
        /\ Len(last.parsed) = 1
        /\ last.parsed[1].contract_address = None
        /\ \E k \in 1..Len(last.parsed[1].missing_fields) :
                last.parsed[1].missing_fields[k] = "contract_address"
    /\ ~last.success =>
        /\ last.raised = None
        /\ last.parsed = <<>>
        /\ StrTruthy(last.error_message)

\* C20: with the oracle not configured, for a message that is neither perp nor
\* CEX-spot and in which no address is found, the parse succeeds if and only if
\* the detected direction is SELL, and then yields exactly one candidate with
\* contract_address null and "contract_address" in missing_fields; otherwise it
\* yields success = false, no candidates and a non-empty error message.
C20_NoAddressSellOrError == NoAddressCase => ExitOrError

\* The part of C20 that holds: the same, for the texts on which the amount
\* extractors do not raise.
C20_NoAddressSellOrErrorUnlessRaised ==
    (NoAddressCase /\ last.raised = None) => ExitOrError

\* "bought then sold" has been rejected for its missing address.
C20_RejectedReached ==
    /\ NoAddressCase
    /\ last.words = <<<<"b", "o", "u", "g", "h", "t">>, <<"t", "h", "e", "n">>, <<"s", "o", "l", "d">>>>
    /\ ~last.success
    /\ last.parsed = <<>>

-----------------------------------------------------------------------------
(* Properties of find_all_addresses and the candidates of the pattern-based *)
(* parser, checked under SpecAddr                                           *)

\* The address a word of the text carries (none: the empty tuple) and where it
\* stands: in a link, alone as an EVM address, alone as a Solana-shaped string.
WordAddress(w) ==
    IF w = Address1Link THEN Address1Chars
    ELSE IF w \in {Address1Chars, Address1Lower, SolanaAddress} THEN w
    ELSE <<>>

WordKind(w) ==
    IF w = Address1Link THEN "link"
    ELSE IF w \in {Address1Chars, Address1Lower} THEN "evm"
    ELSE IF w = SolanaAddress THEN "solana"
    ELSE "none"

\* The distinct addresses of the text, compared case-insensitively.
DistinctAddresses(ws) ==
    {lower(WordAddress(ws[k])) : k \in {j \in 1..Len(ws) : WordKind(ws[j]) # "none"}}

FromLink(ws, address) ==
    \E k \in 1..Len(ws) : WordKind(ws[k]) = "link" /\ lower(WordAddress(ws[k])) = lower(address)

\* 1 for an address of a verified link, 2 for a raw EVM address, 3 for a
\* Solana-shaped string.
Priority(ws, address) ==
    IF FromLink(ws, address) THEN 1
    ELSE IF lower(address) = Address1Lower THEN 2
    ELSE 3

AddressesFound == last.op = "parse_message_with_regex"

InPriorityOrder ==
    \A i, j \in 1..Len(last.addresses) :
        i < j => Priority(last.words, last.addresses[i].address)
                    <= Priority(last.words, last.addresses[j].address)

\* C21: find_all_addresses returns its candidates in priority order (addresses of
\* verified links, then raw EVM addresses, then Solana-shaped strings) with at
\* most one candidate per distinct address compared case-insensitively, so the
\* pattern-based parser produces exactly one trade candidate per distinct address
\* of the message.
C21_OneCandidatePerDistinctAddress ==
    (AddressesFound /\ DistinctAddresses(last.words) # {}) =>
        /\ InPriorityOrder
        /\ \A i, j \in 1..Len(last.addresses) :
                i < j => lower(last.addresses[i].address) # lower(last.addresses[j].address)
        /\ last.success
        /\ Len(last.parsed) = Cardinality(DistinctAddresses(last.words))

\* The part of C21 that holds: the candidates are in priority order and each
\* becomes one trade candidate; a raw address is a candidate at most once.
C21_PriorityOrderAndRawOnce ==
    (AddressesFound /\ DistinctAddresses(last.words) # {}) =>
        /\ InPriorityOrder
        /\ last.success
        /\ Len(last.parsed) = Len(last.addresses)
        /\ \A i, j \in 1..Len(last.addresses) :
                (i < j /\ ~FromLink(last.words, last.addresses[j].address)) =>
                    lower(last.addresses[i].address) # lower(last.addresses[j].address)

\* A Solana-shaped string after the keyword solana and before a link: the link's
\* candidate comes first.
C21_PriorityOrderReached ==
    /\ AddressesFound
    /\ last.words = <<<<"s", "o", "l", "a", "n", "a">>, SolanaAddress, Address1Link>>
    /\ Len(last.addresses) = 2
    /\ last.addresses[1].confidence = "high"


\* The chain named by the first chain keyword of the text, None without one.
TextChain == detect_chain_from_text(lower(last.text))

\* The chain an address defaults to by its shape.
ShapeChain(address) ==
    IF address = SolanaAddress THEN "solana"
    ELSE IF lower(address) = Address1Lower THEN "base"
    ELSE "unknown"

\* The confidence of the candidate for the address follows the origin of its chain.
ConfidenceByOrigin(c, address) ==
    /\ c.parse_confidence = "high" <=> FromLink(last.words, address)
    /\ c.parse_confidence = "medium" <=>
            /\ ~FromLink(last.words, address)
            /\ TextChain # None
            /\ c.chain = TextChain
    /\ c.parse_confidence = "low" <=>
            /\ ~FromLink(last.words, address)
            /\ TextChain = None
            /\ c.chain = ShapeChain(address)

\* C22: for every spot candidate of the pattern-based parser the confidence is
\* high exactly when the address came from a verified link, medium exactly when
\* its chain was taken from a chain keyword of the message text, and low exactly
\* when its chain was defaulted from the shape of the address (Solana-shaped gives
\* solana, EVM-shaped gives base).
C22_ConfidenceFollowsChainOrigin ==
    (AddressesFound /\ last.success) =>
        \A k \in 1..Len(last.parsed) :
            ConfidenceByOrigin(last.parsed[k], last.addresses[k].address)

\* The part of C22 that holds: the same for every candidate but a Solana-shaped
\* string that is not in a link.
C22_ConfidenceFollowsChainOriginButRawSolana ==
    (AddressesFound /\ last.success) =>
        \A k \in 1..Len(last.parsed) :
            (last.addresses[k].address # SolanaAddress
             \/ FromLink(last.words, last.addresses[k].address)) =>
                ConfidenceByOrigin(last.parsed[k], last.addresses[k].address)

\* A raw EVM address in a text with the keyword ethereum got that chain with
\* medium confidence.
C22_KeywordChainReached ==
    /\ AddressesFound
    /\ last.words = <<<<"b", "o", "u", "g", "h", "t">>, Address1Chars, <<"e", "t", "h", "e", "r", "e", "u", "m">>>>
    /\ Len(last.parsed) = 1
    /\ last.parsed[1].chain = "ethereum"
    /\ last.parsed[1].parse_confidence = "medium"

-----------------------------------------------------------------------------
(* Further properties of the accounting engine, checked under Spec *)

\* The step processed a SELL that names a token: by address, or by ticker and venue.
SellProcessed ==
    /\ last'.op = "process_trade"
    /\ last'.parsed[1].trade_type = "SELL"
    /\ \/ StrTruthy(last'.parsed[1].contract_address)
       \/ last'.parsed[1].is_perp
       \/ StrTruthy(last'.parsed[1].exchange)

\* The token of the recorded trade had no OPEN/PARTIAL position before the step.
NoOpenPositionBefore == OpenPositionsOf(NewRow.token_id) = {}

\* The SELL created a position, its trade row references it, and the result is a
\* success that says no open position was found; a row with token amount and USD
\* value leaves the position closed with nothing bought and no PnL.
RecordedOnNewPosition ==
    /\ Len(positions') = Len(positions) + 1
    /\ NewRow.trade_type = "SELL"
    /\ NewRow.position_id = Len(positions')
    /\ After.token_id = NewRow.token_id
    /\ last'.results[1].success
    /\ last'.results[1].position_id = NewRow.position_id
    /\ last'.results[1].message # <<>>
    /\ last'.results[1].message[1] = "No open position found for "
    /\ Applied(NewRow) =>
        /\ After.status = "CLOSED"
        /\ After.remaining_tokens = Zero
        /\ After.total_bought = Zero
        /\ After.realized_pnl_usd = Zero

\* C23: a SELL processed when its token has no OPEN/PARTIAL position creates a new
\* position, records the SELL trade referencing that position and reports success
\* with a "no open position" message; when the trade's token amount and USD value
\* are known, the new position ends CLOSED with remaining_tokens 0, total_bought 0
\* and realized_pnl_usd 0.
C23_SellWithoutPositionIsFlagged ==
    [][SellProcessed =>
        /\ Recorded
        /\ NoOpenPositionBefore => RecordedOnNewPosition]_vars

\* The part of C23 that holds: the same for the trades process_trade handles
\* itself, those with a contract address.
C23_SpotSellWithoutPositionIsFlagged ==
    [][(SellProcessed /\ StrTruthy(last'.parsed[1].contract_address)
                      /\ ~last'.parsed[1].is_perp) =>
        /\ Recorded
        /\ NoOpenPositionBefore => RecordedOnNewPosition]_vars

\* A position closed by a sell, and a later priced SELL of the same token recorded
\* on a position of its own.
C23_SpotSellReached ==
    /\ last.op = "process_trade"
    /\ Len(trades) = 3
    /\ trades[3].trade_type = "SELL"
    /\ Applied(trades[3])
    /\ trades[3].position_id = 2
    /\ positions[1].status = "CLOSED"
    /\ positions[2].status = "CLOSED"
    /\ positions[2].token_id = positions[1].token_id
    /\ last.results[1].message[1] = "No open position found for "

-----------------------------------------------------------------------------
(* Property of get_token_info, checked under SpecInfo *)

\* The preference rank of a chain: solana, base, bsc, ethereum, every other last.
PreferenceRank(chain) ==
    IF chain = "solana" THEN 1
    ELSE IF chain = "base" THEN 2
    ELSE IF chain = "bsc" THEN 3
    ELSE IF chain = "ethereum" THEN 4
    ELSE 5

\* The liquidity of a listing, a missing one counting as 0.
LiquidityOf(l) == IF IsNoneF(l) THEN Zero ELSE l

OnChain(chain) == {i \in 1..Len(last.pairs) : last.pairs[i].chainId = chain}
OfRank(rank) == {i \in 1..Len(last.pairs) : PreferenceRank(last.pairs[i].chainId) = rank}

\* The selected listing is one of S and none of S has more liquidity.
SelectedIsBestOf(S) ==
    /\ \E i \in S :
        /\ last.pairs[i].chainId = last.info.chain
        /\ last.pairs[i].liquidity = last.info.liquidity_usd
    /\ \A i \in S : FLe(LiquidityOf(last.pairs[i].liquidity), LiquidityOf(last.info.liquidity_usd))

\* C24: get_token_info on a non-empty list of listings: with a chain hint and a
\* listing on that chain, the selected listing has the highest liquidity of the
\* listings on that chain; otherwise it has the best preference rank present
\* (solana, base, bsc, ethereum, every other chain last) and the highest liquidity
\* of the listings of that rank.
C24_HintThenPreferenceThenLiquidity ==
    last.op = "get_token_info" =>
        /\ last.info.found
        /\ IF last.chain # None /\ OnChain(last.chain) # {}
           THEN SelectedIsBestOf(OnChain(last.chain))
           ELSE \E rank \in 1..5 :
                    /\ OfRank(rank) # {}
                    /\ \A better \in 1..(rank - 1) : OfRank(better) = {}
                    /\ SelectedIsBestOf(OfRank(rank))

\* With the hint arbitrum the listing on arbitrum was selected although a listing
\* on solana has more liquidity, and of two arbitrum listings the deeper one.
C24_Witness ==
    /\ last.op = "get_token_info"
    /\ last.chain = "arbitrum"
    /\ Len(last.pairs) = 3
    /\ last.pairs[1].chainId = "solana" /\ last.pairs[1].liquidity = Num(5000)
    /\ last.pairs[2].chainId = "arbitrum" /\ last.pairs[2].liquidity = NoneF
    /\ last.pairs[3].chainId = "arbitrum" /\ last.pairs[3].liquidity = Num(1000)
    /\ last.info.chain = "arbitrum"
    /\ last.info.liquidity_usd = Num(1000)


ClosedPositions == {i \in 1..Len(positions) : positions[i].status = "CLOSED"}

\* C25: once a position is CLOSED no later trade processed by process_trade
\* changes any of its fields and it is never deleted; a BUY or SELL of the same
\* token after the close is applied to a newly created position.
C25_ClosedPositionsAreFrozen ==
    [][/\ Len(positions') >= Len(positions)
       /\ \A i \in ClosedPositions : positions'[i] = positions[i]
       /\ Recorded =>
            /\ NewRow.position_id \notin ClosedPositions
            /\ (/\ OpenPositionsOf(NewRow.token_id) = {}
                /\ \E i \in ClosedPositions : positions[i].token_id = NewRow.token_id) =>
                    /\ NewRow.position_id = Len(positions) + 1
                    /\ Len(positions') = Len(positions) + 1
                    /\ After.token_id = NewRow.token_id]_vars

\* A position bought and sold out, then a BUY of the same token applied to a new
\* position while the closed one stands as it was.
C25_Witness ==
    /\ Len(trades) = 3
    /\ Len(positions) = 2
    /\ trades[2].trade_type = "SELL" /\ trades[2].position_id = 1
    /\ trades[3].trade_type = "BUY" /\ trades[3].position_id = 2 /\ Applied(trades[3])
    /\ trades[3].token_id = trades[2].token_id
    /\ positions[1].status = "CLOSED"
    /\ Positive(positions[1].total_bought)
    /\ positions[2].status = "OPEN"

-----------------------------------------------------------------------------
(* Property of the token identity of spot trades, checked under SpecToken *)

\* The token records of Address1.
RecordsOfAddress1 ==
    {i \in 1..Len(tokens) : LowerStr(tokens[i].contract_address) = LowerStr(Address1)}

\* The positions of Address1 that are OPEN or PARTIAL.
OpenOfAddress1 ==
    {i \in 1..Len(positions) :
        positions[i].token_id \in RecordsOfAddress1 /\ IsOpen(positions[i])}

\* C26: for a fixed contract address and a fixed parsed chain every spot trade
\* processed by process_trade is attached to the same token record, whether the
\* resolver returns data, returns not-found or raises a service error, so a SELL
\* that follows a BUY of the same address is applied to the position the BUY
\* opened.
C26_OneTokenRecordPerAddress ==
    /\ [](\A i, j \in 1..Len(trades) : trades[i].token_id = trades[j].token_id)
    /\ [][(Recorded /\ NewRow.trade_type = "SELL" /\ OpenOfAddress1 # {}) =>
            NewRow.position_id \in OpenOfAddress1]_vars

\* The part of C26 that holds: the same, as long as the resolver lists the
\* address on the parsed chain or not at all (the trades of Spec that carry
\* Address1).
C26_OneTokenRecordWhileChainsAgree ==
    /\ [](Cardinality(RecordsOfAddress1) <= 1)
    /\ [][(Recorded /\ NewRow.trade_type = "SELL" /\ OpenOfAddress1 # {}
                    /\ NewRow.token_id \in RecordsOfAddress1) =>
            NewRow.position_id \in OpenOfAddress1]_vars

\* Under Spec: a BUY priced by the resolver and a SELL recorded after a resolver
\* error are on the same position.
C26_SameRecordReached ==
    /\ Len(trades) = 2
    /\ trades[1].trade_type = "BUY" /\ Applied(trades[1])
    /\ trades[2].trade_type = "SELL" /\ ~Applied(trades[2])
    /\ last.resps[1].resp = TimedOut
    /\ trades[2].token_id = trades[1].token_id
    /\ trades[2].position_id = trades[1].position_id

-----------------------------------------------------------------------------
(* Property of a position bought and then sold out, checked under SpecFloat *)
(* and, in exact arithmetic, under Spec                                     *)

\* No BUY is applied to position i after a SELL.
BuysFirst(i) ==
    \A j, k \in AppliedTo(i) :
        (j < k /\ trades[j].trade_type # "BUY") => trades[k].trade_type # "BUY"

\* The exact sum of the token amounts of the SELLs applied to position i.
RECURSIVE SumOfSells(_, _)
SumOfSells(i, S) ==
    IF S = {} THEN Zero
    ELSE FAdd(IF trades[MaxOf(S)].trade_type # "BUY" THEN trades[MaxOf(S)].amount_tokens
              ELSE Zero,
              SumOfSells(i, S \ {MaxOf(S)}))
SellSum(i) == SumOfSells(i, AppliedTo(i))

\* A position whose buys all precede its sells is CLOSED once the sells sum to
\* total_bought, with realized PnL = proceeds - cost, and is not CLOSED while they
\* sum to less.
ClosedExactlyWhenSoldOut ==
    \A i \in 1..Len(positions) :
        (BuysFirst(i) /\ SellApplied(i)) =>
            /\ SellSum(i) = positions[i].total_bought =>
                /\ positions[i].status = "CLOSED"
                /\ positions[i].realized_pnl_usd =
                      FSub(positions[i].total_proceeds_usd, positions[i].total_cost_usd)
            /\ FLt(SellSum(i), positions[i].total_bought) => positions[i].status # "CLOSED"

\* C27: if all BUYs applied to a position precede all of its SELLs and the SELL
\* token amounts sum exactly to total_bought, the position becomes CLOSED on the
\* last SELL and not before, and then realized_pnl_usd = total_proceeds_usd -
\* total_cost_usd.
C27_ClosedOnTheLastSell == ClosedExactlyWhenSoldOut

\* The part of C27 that holds: the same where no operation of the accounting
\* rounds (the arithmetic of Spec is exact).
C27_ClosedOnTheLastSellIfExact == ClosedExactlyWhenSoldOut

\* Under Spec: 1000 tokens bought for $100, 500 more for $150, all 1500 sold in
\* one SELL for $150.
C27_ExactReached ==
    \E i \in 1..Len(positions) :
        /\ BuysFirst(i)
        /\ Cardinality(AppliedTo(i)) = 3
        /\ positions[i].total_bought = Num(1500)
        /\ SellSum(i) = Num(1500)
        /\ positions[i].status = "CLOSED"

-----------------------------------------------------------------------------
(* Property of perp and CEX positions, checked under Spec *)

\* A token process_perp_or_cex_trade created: its address is symbol_exchange and
\* its chain the exchange.
IsPerpToken(tk) == tk.contract_address = tk.symbol \o "_" \o tk.chain

PerpPositions == {i \in 1..Len(positions) : IsPerpToken(tokens[positions[i].token_id])}

\* C28: every position of a perp or CEX token has total_bought = total_cost_usd,
\* total_sold = total_proceeds_usd and realized_pnl_usd = 0 after any sequence of
\* trades.
C28_PerpPositionsCountDollars ==
    \A i \in PerpPositions :
        /\ OrZero(positions[i].total_bought) = OrZero(positions[i].total_cost_usd)
        /\ OrZero(positions[i].total_sold) = OrZero(positions[i].total_proceeds_usd)
        /\ OrZero(positions[i].realized_pnl_usd) = Zero

\* A perp position bought twice ($100 and $30) and then partly sold ($30).
C28_Witness ==
    \E i \in PerpPositions :
        /\ Cardinality(AppliedTo(i)) = 3
        /\ positions[i].total_bought = Num(130)
        /\ positions[i].total_sold = Num(30)
        /\ positions[i].status = "PARTIAL"

-----------------------------------------------------------------------------
(* Property of extract_usd_amounts, checked under SpecUsd *)

\* The amounts the words of a text carry, each word read on its own.
RECURSIVE OwnAmounts(_)
OwnAmounts(ws) ==
    IF ws = <<>> THEN <<>>
    ELSE extract_usd_amounts(lower(Head(ws)), Head(ws)) \o OwnAmounts(Tail(ws))

\* Word k of ws is a dollar amount with no suffix of its own and the next word
\* begins with k, m or b.
FollowedBySuffixLetter(ws, k) ==
    /\ k < Len(ws)
    /\ ws[k][1] = "$"
    /\ LowerChar(ws[k][Len(ws[k])]) \notin SuffixChars
    /\ LowerChar(ws[k + 1][1]) \in SuffixChars

\* C29: a K/M/B multiplier is applied only when the suffix letter belongs to the
\* amount itself, so the amounts extracted from a text are the amounts of its
\* words; "$1 bought" gives 1.
C29_SuffixBelongsToTheAmount ==
    last.op = "extract_usd_amounts" => last.amounts = OwnAmounts(last.words)

\* The part of C29 that holds: the same for a text in which no suffix-less dollar
\* amount is followed by a word beginning with k, m or b.
C29_SuffixBelongsToTheAmountUnlessLetterFollows ==
    (/\ last.op = "extract_usd_amounts"
     /\ \A k \in 1..Len(last.words) : ~FollowedBySuffixLetter(last.words, k))
        => last.amounts = OwnAmounts(last.words)

\* "bought $2K more" gives 2000.
C29_UnscaledReached ==
    /\ last.op = "extract_usd_amounts"
    /\ last.words = <<<<"b", "o", "u", "g", "h", "t">>, <<"$", "2", "K">>, <<"m", "o", "r", "e">>>>
    /\ last.amounts = <<Num(2000)>>

-----------------------------------------------------------------------------
(* Property of concurrent handlers, checked under SpecConc *)

\* The store after the trades of the messages ms are applied one message after
\* another, starting from the store d.
RECURSIVE AppliedInTurn(_, _)
AppliedInTurn(d, ms) ==
    IF ms = <<>> THEN d
    ELSE AppliedInTurn(
             ProcessAll(d, [k \in 1..Len(Head(ms)) |-> Head(ms)[k].parsed], Head(ms), <<>>).db,
             Tail(ms))

\* C30: no other message's accounting update interleaves with process_trade: the
\* position totals (and the whole store) after the messages handled so far are
\* those of applying their trades one after another.
C30_NoLostUpdate ==
    last.op # "init" =>
        /\ db = AppliedInTurn(Db(<<>>, <<>>, <<>>), last.order)
        /\ \A i \in 1..Len(positions) :
              positions[i] = Replay(NewPosition(positions[i].token_id),
                                    Ascending(AppliedTo(i)))

\* Two handlers are in flight at once; the one that arrived second was resumed
\* first, and both BUYs are in the totals of the one position: 4000 tokens for
\* $400.
C30_Witness ==
    /\ last.op # "init"
    /\ last.handlers[1].pc = "edit_text"
    /\ last.handlers[2].pc = "edit_text"
    /\ last.handlers[1].ticket < last.handlers[2].ticket
    /\ last.order = <<<<Buy300>>, <<Buy100>>>>
    /\ Len(positions) = 1
    /\ positions[1].total_bought = Num(4000)
    /\ positions[1].total_cost_usd = Num(400)

====
